---- MODULE Spec2Model ----
(***************************************************************************)
(* Verification model of the request-evaluation framework, the inheritance *)
(* circularity checker (lib/Sema/TypeCheckDecl.cpp) and the constraint-fix *)
(* to failure-diagnostic delegation (lib/Sema/CSFix.cpp).                   *)
(*                                                                         *)
(* The specifications that share the module:                               *)
(*   SpecCirc    - checkCircularity driven by the DeclChecker visitors     *)
(*   SpecCircLive - SpecCirc with each traversal run to its end            *)
(*   SpecEval    - the Evaluator (cache, active stack, statistics)         *)
(*   SpecFix     - ConstraintFix creation and diagnose()                   *)
(*   SpecUnwrap  - one ForceOptional fix from create() to diagnose()       *)
(*   SpecInherit - checkInheritanceClause over one inheritance clause      *)
(*   SpecEnum    - checkEnumRawValues over the elements of one enum        *)
(*   SpecRedecl  - validation and checkRedeclaration of same-named decls   *)
(*   SpecValid   - the validation state under validateDecl and its kin     *)
(*   SpecPrec    - validation of precedence groups and their circularity   *)
(*   SpecPrecLive - SpecPrec with each validation run to its end           *)
(*   SpecFinal   - IsFinalRequest asked of a class, a member, an accessor  *)
(***************************************************************************)
EXTENDS Integers, Sequences, FiniteSets, TLC

(***************************************************************************)
(* Bounds.                                                                 *)
(***************************************************************************)
\* number of declarations of the checked kind in the program
NumDecls == 3
\* largest number of entries one declaration inherits directly
MaxInherited == 2
\* largest number of inheritance entries in the whole program
MaxEdges == 4
\* number of declarations the DeclChecker visits in one pass
MaxVisits == 3
\* longest path of a constraint locator
MaxPath == 2
\* number of fixes recorded in one constraint system
MaxFixes == 2
\* number of evaluations, nested ones included, asked of the Evaluator
MaxEvals == 4
\* largest number of entries of the inheritance clause that is checked
MaxClause == 3
\* largest number of elements of the enum whose raw values are checked
MaxCases == 3
\* number of declarations of one base name checked for redeclaration
NumValueDecls == 3
\* number of declarations whose validation state is followed
NumValidated == 2
\* number of validation calls, nested ones included
MaxValidateCalls == 4
\* number of precedence groups of the module
NumGroups == 3
\* largest number of higherThan relations of one precedence group
MaxHigherThan == 2
\* number of times isFinal() is asked from outside the request
MaxFinalQueries == 3

Decls == 1..NumDecls

\* an inherited nominal type that is not of the checked kind (the Int raw
\* type of an enum, the class bound of a protocol)
OtherNominal == NumDecls + 1

None == "None"

VARIABLES
  \* ---- declaration graph and circularity checker ----
  declKind,          \* "class", "enum" or "protocol": the T of checkCircularity
  inheritedClause,   \* decl -> the nominal declarations its clause names
  circularityCheck,  \* decl -> CircularityCheck
  path,              \* the SmallVector path of the running traversal
  callStack,         \* frames of checkCircularity in its Unchecked case
  diags,             \* diagnostics emitted so far, in order
  visited,           \* declarations whose visitor has run
  travRoot,          \* declaration the running/last traversal started from, 0 before
  travBase,          \* Len(diags) when that traversal started
  travPre,           \* circularityCheck as it was at that time
  assertFailed,      \* an assert of checkCircularity has fired
  expansions,        \* decl -> how often its inherited list was walked
  \* ---- constraint fixes ----
  fixCtx,            \* what the diagnosed expression looks like
  recordedFixes,     \* fixes recorded in the constraint system, with the
                     \* arguments their factory was called with
  diagnosedLog,      \* the diagnose() calls made and what they produced
  \* ---- requests and the Evaluator ----
  Resolver,          \* assoc type -> it has a LazyMemberLoader
  defaultDefinition, \* assoc type -> it has a default definition TypeRepr
  calleeOf,          \* request -> what its body evaluates
  activeRequests,    \* the active stack, with the state of each body
  cache,             \* the cache table of the Evaluator
  slot,              \* decl -> the inherited type stored in its TypeLoc
  stats,             \* request kind -> frontend counter
  execCount,         \* request -> times its evaluate body was entered
  statCount,         \* request -> counter increments made for it
  evalLog,           \* the evaluations that returned, in order
  cycleLog,          \* the cycles diagnosed, in order
  nEvals,            \* number of evaluations asked for so far
  topRequest,        \* the request of the running/last outermost evaluation
  topBase,           \* lengths of cycleLog and evalLog when it started
  \* ---- checkInheritanceClause ----
  clauseDecl,        \* the kind of declaration whose clause is checked
  classKeyword,      \* before Swift 5, with AnyObject written as 'class'
  clause,            \* entry -> what its InheritedTypeRequest evaluates to
  clausePc,          \* "entry", "loop" or "returned"
  clauseIdx,         \* the entry the loop is at, from 1
  superclassTy,      \* the superclass or raw type recorded, if any
  superclassRange,   \* the entry it was written at, 0 if none
  inheritedAnyObject, \* the entry AnyObject was first seen at, 0 if none
  entryLog,          \* per entry checked: what evaluateOrDefault returned,
                     \* the diagnostics and the superclass after it
  clauseDiags,       \* diagnostics of the clause, in order
  \* ---- checkEnumRawValues ----
  rawType,           \* the raw type of the enum
  elements,          \* the elements of the enum, in source order
  enumPc,            \* "entry", "loop" or "returned"
  enumIdx,           \* the element the loop is at, from 1
  prevValue,         \* the raw value literal of the element before
  lastExplicitValueElt, \* the last element with a written raw value, 0 if none
  uniqueRawValues,   \* RawValueKey -> RawValueSource, as a set of entries
  enumDiags,         \* diagnostics of the raw values, in order
  enumAssertFailed,  \* the assert of the duplicate report has fired
  enumCaller,        \* the function that calls checkEnumRawValues
  repeatedName,      \* the later element named like the first, or 0
  \* ---- checkRedeclaration ----
  kindOf,            \* decl -> what the declaration is (ValueDeclKinds)
  sigOf,             \* decl -> its overload signature
  swift5Only,        \* equal signatures conflict in Swift 5 mode only
  interfaceType,     \* decl -> its interface type, NoType while it has none
  isInvalid,         \* decl -> isInvalid()
  alreadyCheckedRedeclaration, \* decl -> the flag of that name
  visitedDecls,      \* the declarations DeclChecker has visited
  redeclDiags,       \* diagnostics of checkRedeclaration, in order
  \* ---- validation state ----
  validKind,         \* decl -> what the declaration is (ValidatedKinds)
  parentOf,          \* decl -> the declaration that is its context, or 0
  validationState,   \* decl -> "Unchecked", "Checking" or "Checked"
  bindingState,      \* variable -> the same for its pattern binding
  validationStack,   \* the validations running, innermost last
  bodyRuns,          \* decl -> how often its validation was begun
  attrChecks,        \* precedence group -> runs of checkDeclAttributes
  validateLog,       \* the calls made, in order
  \* ---- precedence groups ----
  higherThan,        \* group -> the groups its higherThan relations name
  groupInvalid,      \* group -> isInvalid()
  groupState,        \* group -> "Unchecked", "Checking" or "Checked"
  groupResolved,     \* group -> how many of its relations have their Group
  groupStack,        \* the validations of groups running, innermost last
  groupsAsked,       \* the groups validateDecl was asked for from outside
  groupDiags,        \* the precedence_group_cycle diagnostics, in order
  \* ---- IsFinalRequest ----
  finalWorld,        \* the class, member and accessor as written
  isFinalCache,      \* decl -> the result stored in it, or NotComputed
  finalStack,        \* the bodies of IsFinalRequest running, innermost last
  finalDiags,        \* the diagnostics of the bodies, in order
  finalQueries       \* the declarations isFinal() was asked of, in order

circVars == <<declKind, inheritedClause, circularityCheck, path, callStack,
              diags, visited, travRoot, travBase, travPre, assertFailed,
              expansions>>

fixVars == <<fixCtx, recordedFixes, diagnosedLog>>

evalVars == <<Resolver, defaultDefinition, calleeOf, activeRequests, cache,
              slot, stats, execCount, statCount, evalLog, cycleLog, nEvals,
              topRequest, topBase>>

inhVars == <<clauseDecl, classKeyword, clause, clausePc, clauseIdx,
             superclassTy, superclassRange, inheritedAnyObject, entryLog,
             clauseDiags>>

enumVars == <<rawType, elements, enumPc, enumIdx, prevValue,
              lastExplicitValueElt, uniqueRawValues, enumDiags,
              enumAssertFailed, enumCaller, repeatedName>>

redeclVars == <<kindOf, sigOf, swift5Only, interfaceType, isInvalid,
                alreadyCheckedRedeclaration, visitedDecls, redeclDiags>>

validVars == <<validKind, parentOf, validationState, bindingState,
               validationStack, bodyRuns, attrChecks, validateLog>>

precVars == <<higherThan, groupInvalid, groupState, groupResolved, groupStack,
              groupsAsked, groupDiags>>

finalVars == <<finalWorld, isFinalCache, finalStack, finalDiags, finalQueries>>

semaVars == <<inhVars, enumVars, redeclVars, validVars, precVars, finalVars>>

vars == <<circVars, fixVars, evalVars, semaVars>>

nonCircVars == <<fixVars, evalVars, semaVars>>

nonFixVars == <<circVars, evalVars, semaVars>>

nonEvalVars == <<circVars, fixVars, semaVars>>

nonInhVars == <<circVars, fixVars, evalVars, enumVars, redeclVars, validVars,
   precVars, finalVars>>

nonEnumVars == <<circVars, fixVars, evalVars, inhVars, redeclVars, validVars,
   precVars, finalVars>>

nonRedeclVars == <<circVars, fixVars, evalVars, inhVars, enumVars, validVars,
   precVars, finalVars>>

nonValidVars == <<circVars, fixVars, evalVars, inhVars, enumVars, redeclVars,
   precVars, finalVars>>

nonPrecVars == <<circVars, fixVars, evalVars, inhVars, enumVars, redeclVars,
   validVars, finalVars>>

nonFinalVars == <<circVars, fixVars, evalVars, inhVars, enumVars, redeclVars,
   validVars, precVars>>

(***************************************************************************)
(* Declaration graph.                                                      *)
(***************************************************************************)
\* the sequences over S of length at most n that name no element twice
SeqsUpTo(S, n) ==
  {q \in UNION {[1..k -> S] : k \in 0..n} :
     \A a, b \in 1..Len(q) : a # b => q[a] # q[b]}

RECURSIVE SumLen(_, _)
SumLen(f, D) ==
  IF D = {} THEN 0
  ELSE LET d == CHOOSE x \in D : TRUE IN Len(f[d]) + SumLen(f, D \ {d})

\* the nominal declarations an inheritance clause can name, per kind:
\* a class has at most one superclass, an enum at most one raw type (which
\* need not be an enum), a protocol any number of inherited protocols
ClauseSet(kind) ==
  CASE kind = "class"    -> SeqsUpTo(Decls, 1)
    [] kind = "enum"     -> SeqsUpTo(Decls \cup {OtherNominal}, 1)
    [] kind = "protocol" -> SeqsUpTo(Decls, MaxInherited)

Graphs(kind) ==
  {g \in [Decls -> ClauseSet(kind)] : SumLen(g, Decls) <= MaxEdges}

\* getInheritedForCycleCheck, protocol overload: the directly inherited
\* nominals that are protocols
getInheritedForCycleCheckProtocol(proto) ==
  SelectSeq(inheritedClause[proto], LAMBDA found : found \in Decls)

\* getInheritedForCycleCheck, class overload: the superclass, if any
getInheritedForCycleCheckClass(classDecl) ==
  IF Len(inheritedClause[classDecl]) > 0
  THEN <<inheritedClause[classDecl][1]>>
  ELSE <<>>

\* getInheritedForCycleCheck, enum overload: the raw type when it is an enum
getInheritedForCycleCheckEnum(enumDecl) ==
  IF Len(inheritedClause[enumDecl]) > 0
  THEN IF inheritedClause[enumDecl][1] \in Decls
       THEN <<inheritedClause[enumDecl][1]>>
       ELSE <<>>
  ELSE <<>>

getInheritedForCycleCheck(decl) ==
  CASE declKind = "class"    -> getInheritedForCycleCheckClass(decl)
    [] declKind = "enum"     -> getInheritedForCycleCheckEnum(decl)
    [] declKind = "protocol" -> getInheritedForCycleCheckProtocol(decl)

\* the diagnostic id each visitor passes as circularDiag
circularDiag ==
  CASE declKind = "class"    -> "circular_class_inheritance"
    [] declKind = "enum"     -> "circular_enum_inheritance"
    [] declKind = "protocol" -> "circular_protocol_def"

IsCircularError(dg) ==
  dg.id \in {"circular_class_inheritance", "circular_enum_inheritance",
             "circular_protocol_def"}

IsDeclaredHereNote(dg) == dg.id = "kind_declname_declared_here"

(***************************************************************************)
(* checkCircularity.                                                       *)
(***************************************************************************)
\* variant: the cycle is taken to start at the front of the path
CycleStart_fromBegin(p, decl) ==
  IF \E i \in 1..Len(p) : p[i] = decl THEN 1 ELSE 0

\* the backward search "while (*cycleStart != decl) --cycleStart": the last
\* index of the path holding decl, 0 when the search runs off the front
CycleStart(p, decl) ==
  IF \E i \in 1..Len(p) : p[i] = decl
  THEN CHOOSE i \in 1..Len(p) :
         p[i] = decl /\ \A j \in (i+1)..Len(p) : p[j] # decl
  ELSE 0

\* variant: the self-reference case lacks its break and goes on to the
\* general report
CycleDiags_noBreak(p, decl) ==
  LET cycleStart == CycleStart(p, decl)
      general ==
        <<[id |-> circularDiag, loc |-> decl, name |-> p[cycleStart]]>>
        \o [k \in 1..(Len(p) - cycleStart) |->
              [id |-> "kind_declname_declared_here",
               loc |-> p[cycleStart + k], name |-> p[cycleStart + k]]]
  IN IF Len(p) + 1 - cycleStart = 1
     THEN <<[id |-> circularDiag, loc |-> p[Len(p)], name |-> p[Len(p)]]>>
          \o general
     ELSE general

\* variant: the note loop starts at cycleStart instead of cycleStart + 1
CycleDiags_noteFromStart(p, decl) ==
  LET cycleStart == CycleStart(p, decl) IN
  IF Len(p) + 1 - cycleStart = 1
  THEN <<[id |-> circularDiag, loc |-> p[Len(p)], name |-> p[Len(p)]]>>
  ELSE <<[id |-> circularDiag, loc |-> decl, name |-> p[cycleStart]]>>
       \o [k \in 1..(Len(p) + 1 - cycleStart) |->
             [id |-> "kind_declname_declared_here",
              loc |-> p[cycleStart + k - 1], name |-> p[cycleStart + k - 1]]]

\* the diagnostics of the Checking case
CycleDiags(p, decl) ==
  LET cycleStart == CycleStart(p, decl) IN
  IF Len(p) + 1 - cycleStart = 1
  THEN <<[id |-> circularDiag, loc |-> p[Len(p)], name |-> p[Len(p)]]>>
  ELSE <<[id |-> circularDiag, loc |-> decl, name |-> p[cycleStart]]>>
       \o [k \in 1..(Len(p) - cycleStart) |->
             [id |-> "kind_declname_declared_here",
              loc |-> p[cycleStart + k], name |-> p[cycleStart + k]]]

\* entry of checkCircularity(decl) with the path p and the frames st of its
\* callers: the switch on decl->getCircularityCheck()
checkCircularity(decl, p, st) ==
  CASE circularityCheck[decl] = "Checked" ->
         /\ path' = p
         /\ callStack' = st
         /\ UNCHANGED <<circularityCheck, diags, assertFailed, expansions>>
    [] circularityCheck[decl] = "Checking" ->
         /\ path' = p
         /\ callStack' = st
         /\ IF Len(p) = 0 \/ CycleStart(p, decl) = 0
            THEN assertFailed' = TRUE /\ UNCHANGED diags
            ELSE /\ diags' = diags \o CycleDiags(p, decl)
                 /\ UNCHANGED assertFailed
         /\ UNCHANGED <<circularityCheck, expansions>>
    [] circularityCheck[decl] = "Unchecked" ->
         /\ path' = Append(p, decl)
         /\ circularityCheck' = [circularityCheck EXCEPT ![decl] = "Checking"]
         /\ callStack' = Append(st, [decl |-> decl, next |-> 1])
         /\ expansions' = [expansions EXCEPT ![decl] = @ + 1]
         /\ UNCHANGED <<diags, assertFailed>>

\* visitClassDecl / visitEnumDecl / visitProtocolDecl: the path is created
\* holding the declaration, then checkCircularity is called on it
VisitDecl(d) ==
  /\ callStack = <<>>
  /\ d \notin visited
  /\ Cardinality(visited) < MaxVisits
  /\ visited' = visited \cup {d}
  /\ travRoot' = d
  /\ travBase' = Len(diags)
  /\ travPre' = circularityCheck
  /\ checkCircularity(d, <<d>>, <<>>)
  /\ UNCHANGED <<declKind, inheritedClause>>
  /\ UNCHANGED nonCircVars

\* one iteration of "for (auto inherited : getInheritedForCycleCheck(...))"
WalkInherited ==
  /\ callStack # <<>>
  /\ LET top == callStack[Len(callStack)]
         inh == getInheritedForCycleCheck(top.decl)
     IN /\ top.next <= Len(inh)
        /\ checkCircularity(inh[top.next], path,
             [callStack EXCEPT ![Len(callStack)].next = top.next + 1])
  /\ UNCHANGED <<declKind, inheritedClause, visited, travRoot, travBase,
                 travPre>>
  /\ UNCHANGED nonCircVars

\* variant: the declaration is put back to Unchecked on the way out
FinishDecl_resetsState ==
  /\ callStack # <<>>
  /\ LET top == callStack[Len(callStack)]
         inh == getInheritedForCycleCheck(top.decl)
     IN /\ top.next > Len(inh)
        /\ circularityCheck' =
             [circularityCheck EXCEPT ![top.decl] = "Unchecked"]
        /\ path' = SubSeq(path, 1, Len(path) - 1)
        /\ callStack' = SubSeq(callStack, 1, Len(callStack) - 1)
  /\ UNCHANGED <<declKind, inheritedClause, diags, visited, travRoot,
                 travBase, travPre, assertFailed, expansions>>
  /\ UNCHANGED nonCircVars

\* variant: the declaration is not marked Checked on the way out
FinishDecl_staysChecking ==
  /\ callStack # <<>>
  /\ LET top == callStack[Len(callStack)]
         inh == getInheritedForCycleCheck(top.decl)
     IN /\ top.next > Len(inh)
        /\ path' = SubSeq(path, 1, Len(path) - 1)
        /\ callStack' = SubSeq(callStack, 1, Len(callStack) - 1)
  /\ UNCHANGED <<declKind, inheritedClause, circularityCheck, diags, visited,
                 travRoot, travBase, travPre, assertFailed, expansions>>
  /\ UNCHANGED nonCircVars

\* the end of the Unchecked case: mark Checked, pop the path, return
FinishDecl ==
  /\ callStack # <<>>
  /\ LET top == callStack[Len(callStack)]
         inh == getInheritedForCycleCheck(top.decl)
     IN /\ top.next > Len(inh)
        /\ circularityCheck' =
             [circularityCheck EXCEPT ![top.decl] = "Checked"]
        /\ path' = SubSeq(path, 1, Len(path) - 1)
        /\ callStack' = SubSeq(callStack, 1, Len(callStack) - 1)
  /\ UNCHANGED <<declKind, inheritedClause, diags, visited, travRoot,
                 travBase, travPre, assertFailed, expansions>>
  /\ UNCHANGED nonCircVars

(***************************************************************************)
(* Properties of the circularity checker.                                  *)
(***************************************************************************)
\* declarations reachable from d over one or more inheritance edges
RECURSIVE ReachFrom(_, _)
ReachFrom(S, n) ==
  IF n = 0 THEN S
  ELSE ReachFrom(S \cup {y \in Decls : \E x \in S :
                   \E i \in 1..Len(inheritedClause[x]) :
                     inheritedClause[x][i] = y}, n - 1)

Inherits(x, y) ==
  \E i \in 1..Len(inheritedClause[x]) : inheritedClause[x][i] = y

Reach(d) == ReachFrom({y \in Decls : Inherits(d, y)}, NumDecls)

OnCycle(d) == d \in Reach(d)

\* d is on a cycle or leads into one
ReachesCycle(d) == OnCycle(d) \/ \E y \in Reach(d) : OnCycle(y)

\* a top-level traversal has been started and has returned
TraversalDone == callStack = <<>> /\ travRoot \in Decls

\* the circularity errors the running/last traversal has emitted
TraversalErrors ==
  {i \in (travBase + 1)..Len(diags) : IsCircularError(diags[i])}

ErrorIdx == {i \in 1..Len(diags) : IsCircularError(diags[i])}

\* the names of the notes that directly follow the error at index i
NoteNames(i) ==
  LET stops == {j \in (i + 1)..(Len(diags) + 1) :
                  j = Len(diags) + 1 \/ IsCircularError(diags[j])}
      stop == CHOOSE j \in stops : \A k \in stops : j <= k
  IN [k \in 1..(stop - i - 1) |-> diags[i + k].name]

SeqToSet(s) == {s[k] : k \in 1..Len(s)}

\* the declarations the error at index i and its notes name
NamedDecls(i) == {diags[i].name} \cup SeqToSet(NoteNames(i))

\* s lists the declarations of a cycle of the inheritance graph in order,
\* each one once
SimpleCycle(s) ==
  /\ Len(s) >= 1
  /\ \A a, b \in 1..Len(s) : a # b => s[a] # s[b]
  /\ \A a \in 1..Len(s) :
       Inherits(s[a], s[IF a = Len(s) THEN 1 ELSE a + 1])

\* C4: the circularity state of a declaration only ever moves from
\* Unchecked to Checking and from Checking to Checked.
C4_ForwardOnly ==
  [][\A d \in Decls :
       circularityCheck'[d] # circularityCheck[d] =>
         \/ circularityCheck[d] = "Unchecked"
            /\ circularityCheck'[d] = "Checking"
         \/ circularityCheck[d] = "Checking"
            /\ circularityCheck'[d] = "Checked"]_vars

C4_Witness ==
  /\ \E d \in Decls : circularityCheck[d] = "Checked"
  /\ \E d \in Decls : circularityCheck[d] = "Checking"

\* C5 as stated: a finished traversal that started, with nothing checked
\* yet, from a declaration that reaches a cycle has emitted exactly one
\* circularity error.
C5_ExactlyOnceAnyGraph ==
  (/\ TraversalDone
   /\ \A d \in Decls : travPre[d] = "Unchecked"
   /\ ReachesCycle(travRoot))
  => Cardinality(TraversalErrors) = 1

\* every declaration reachable from d, and d, inherits at most one
\* declaration of the checked kind
SingleInheritanceFrom(d) ==
  \A x \in Reach(d) \cup {d} : Len(getInheritedForCycleCheck(x)) <= 1

\* C5 (amended): a finished traversal started from a declaration that
\* reaches a cycle whose declarations were still Unchecked has emitted at
\* least one circularity error, and exactly one when no declaration it
\* reaches inherits more than one declaration (always so for classes and
\* enums).
C5_OncePerSingleInheritance ==
  (/\ TraversalDone
   /\ \E y \in Reach(travRoot) \cup {travRoot} :
        OnCycle(y) /\ travPre[y] = "Unchecked")
  => /\ Cardinality(TraversalErrors) >= 1
     /\ SingleInheritanceFrom(travRoot)
          => Cardinality(TraversalErrors) = 1
     /\ declKind \in {"class", "enum"} => SingleInheritanceFrom(travRoot)

C5_Witness ==
  /\ TraversalDone
  /\ declKind = "class"
  /\ ~OnCycle(travRoot)
  /\ ReachesCycle(travRoot)
  /\ travPre[travRoot] = "Unchecked"
  /\ Cardinality(TraversalErrors) = 1

\* C6 as stated: every circularity error is followed by one note for each
\* declaration taking part in the cycle (k notes for k declarations).
C6_NotePerParticipant ==
  \A i \in ErrorIdx : Len(NoteNames(i)) = Cardinality(NamedDecls(i))

\* C6 (amended): every circularity error names the declaration that closes
\* the cycle and is followed by one note for each other declaration of the
\* cycle: k - 1 notes for a cycle of k declarations, none for a declaration
\* that inherits from itself.
C6_NotePerOtherParticipant ==
  \A i \in ErrorIdx :
    /\ Len(NoteNames(i)) = Cardinality(NamedDecls(i)) - 1
    /\ diags[i].name \notin SeqToSet(NoteNames(i))
    /\ \A x \in NamedDecls(i) :
         /\ \E y \in NamedDecls(i) : Inherits(x, y)
         /\ \E y \in NamedDecls(i) : Inherits(y, x)
    /\ SingleInheritanceFrom(diags[i].name)
         => NamedDecls(i) = Reach(diags[i].name)

C6_Witness ==
  \E i \in ErrorIdx :
    Len(NoteNames(i)) = 2 /\ Cardinality(Reach(diags[i].name)) = 3

\* C7: the error and its notes name exactly the declarations of the cycle,
\* in path order from the repeated declaration on; a declaration that only
\* leads into the cycle is never named.
C7_MinimalCycle ==
  /\ \A i \in ErrorIdx :
       /\ SimpleCycle(<<diags[i].name>> \o NoteNames(i))
       /\ diags[i].loc = diags[i].name
  /\ \A i \in 1..Len(diags) : OnCycle(diags[i].name)

C7_Witness ==
  /\ TraversalDone
  /\ ~OnCycle(travRoot)
  /\ \E i \in TraversalErrors :
       /\ Len(NoteNames(i)) >= 1
       /\ travRoot \notin NamedDecls(i)

\* the circularity errors, of all traversals so far, that name d
ErrorsNaming(d) == {i \in ErrorIdx : d \in NamedDecls(i)}

\* every declaration has been visited and the last traversal has returned
PassDone == callStack = <<>> /\ visited = Decls

\* C23: over the traversals started from the class or enum declarations,
\* in whatever order, a cycle is never reported by more than one
\* circularity error, only cycles are reported, and once every
\* declaration has been visited each cycle has been reported by exactly
\* one error: traversals that reach a cycle already reported emit nothing
C23_OneErrorPerCycle ==
  declKind \in {"class", "enum"} =>
    /\ \A d \in Decls : Cardinality(ErrorsNaming(d)) <= 1
    /\ \A i \in ErrorIdx : NamedDecls(i) = Reach(diags[i].name)
    /\ PassDone =>
         \A d \in Decls : OnCycle(d) => Cardinality(ErrorsNaming(d)) = 1

\* a pass over a two-cycle and a declaration leading into it, the cycle
\* first
C23_Witness ==
  /\ PassDone
  /\ declKind = "class"
  /\ \E d \in Decls : ~OnCycle(d) /\ ReachesCycle(d) /\ travRoot = d
  /\ \E d \in Decls : OnCycle(d) /\ Cardinality(Reach(d)) = 2
  /\ Cardinality(ErrorIdx) = 1

\* C24: when a top-level checkCircularity call has returned no
\* declaration is Checking, every declaration the traversal could enter
\* is Checked, and the path holds what the visitor put in it, cycle or not
C24_TraversalLeavesNothingBehind ==
  TraversalDone =>
    /\ \A d \in Decls : circularityCheck[d] # "Checking"
    /\ \A d \in Reach(travRoot) \cup {travRoot} :
         circularityCheck[d] = "Checked"
    /\ path = <<travRoot>>

\* a traversal of a protocol that found a cycle has returned
C24_Witness ==
  /\ TraversalDone
  /\ declKind = "protocol"
  /\ travPre[travRoot] = "Unchecked"
  /\ TraversalErrors # {}
  /\ path = <<travRoot>>

\* C25: a traversal that has been started returns, on cyclic graphs too,
\* and over all the traversals of a pass the inherited list of a
\* declaration is walked at most once, namely when the declaration leaves
\* the Unchecked state
C25_TerminatesExpandingOnce ==
  /\ (callStack # <<>>) ~> (callStack = <<>>)
  /\ [](\A d \in Decls :
          /\ expansions[d] <= 1
          /\ expansions[d] = 1 <=> circularityCheck[d] # "Unchecked")

\* a pass over a cycle of three declarations has returned, each walked once
C25_Witness ==
  /\ PassDone
  /\ \A d \in Decls : OnCycle(d) /\ Cardinality(Reach(d)) = 3
  /\ \A d \in Decls : expansions[d] = 1
  /\ ErrorIdx # {}

\* C29: a declaration that is Checking is an element of the path, the
\* traversal having been started with the path holding the starting
\* declaration, so the backward search for the start of the cycle finds
\* it and the assertion "Missing cycle start?" does not fire
C29_CheckingIsOnPath ==
  /\ ~assertFailed
  /\ \A d \in Decls :
       circularityCheck[d] = "Checking" =>
         /\ callStack # <<>>
         /\ CycleStart(path, d) > 0

\* a cycle was found at a declaration that is not the front of the path
C29_Witness ==
  /\ callStack # <<>>
  /\ \E i \in TraversalErrors :
       /\ circularityCheck[diags[i].name] = "Checking"
       /\ diags[i].name # path[1]
       /\ CycleStart(path, diags[i].name) > 2

(***************************************************************************)
(* Constraint fixes and failure diagnostics (CSFix.h, CSFix.cpp,           *)
(* CSDiagnostics.cpp).                                                     *)
(***************************************************************************)
NoExpr == "NoExpr"

\* the expressions of the checked statement and their classes
ExprKind ==
  [x         |-> "DeclRefExpr",
   assign    |-> "AssignExpr",
   call      |-> "CallExpr",
   tryq      |-> "OptionalTryExpr",
   inout     |-> "InOutExpr",
   subscript |-> "SubscriptExpr"]

Exprs == DOMAIN ExprKind

\* AssignExpr::getSrc, CallExpr::getArg, SubscriptExpr::getBase
SubExpr == [assign |-> "x", call |-> "x", subscript |-> "x", tryq |-> "x"]

PathElts ==
  {"ApplyArgument", "ApplyArgToParam", "SubscriptMember", "ContextualType"}

Paths == UNION {[1..k -> PathElts] : k \in 0..MaxPath}

Locators == [anchor : Exprs, path : Paths]

Types == {"Int", "Int?", "Int??"}

\* TypeBase::getOptionalObjectType
getOptionalObjectType(t) ==
  CASE t = "Int?"  -> "Int"
    [] t = "Int??" -> "Int?"
    [] OTHER       -> None

Tail2(s) == SubSeq(s, 3, Len(s))

\* simplifyLocator: strips the leading path elements that can be resolved
\* against the anchor, moving the anchor to the expression they address
RECURSIVE simplifyLocator(_)
simplifyLocator(l) ==
  IF l.path = <<>> \/ l.anchor = NoExpr THEN l
  ELSE LET elt == Head(l.path) IN
       CASE elt = "ApplyArgument" /\ ExprKind[l.anchor] = "CallExpr" ->
              IF Len(l.path) > 1 /\ l.path[2] = "ApplyArgToParam"
              THEN simplifyLocator([anchor |-> SubExpr[l.anchor],
                                    path |-> Tail2(l.path)])
              ELSE simplifyLocator([anchor |-> SubExpr[l.anchor],
                                    path |-> Tail(l.path)])
         [] elt = "SubscriptMember" /\ ExprKind[l.anchor] = "SubscriptExpr" ->
              simplifyLocator([anchor |-> l.anchor, path |-> Tail(l.path)])
         [] OTHER -> l

\* simplifyLocatorToAnchor: the expression a locator simplifies to, none
\* when path elements remain
simplifyLocatorToAnchor(l) ==
  LET r == simplifyLocator(l) IN
  IF r.path = <<>> THEN r.anchor ELSE NoExpr

\* ConstraintSystem::getConstraintLocator(Expr *)
getConstraintLocator(anchor) == [anchor |-> anchor, path |-> <<>>]

\* FailureDiagnostic::computeAnchor
computeAnchor(locator) ==
  LET isSubscriptMember ==
        locator.path # <<>>
        /\ locator.path[Len(locator.path)] = "SubscriptMember"
      resolved == simplifyLocator(locator)
  IN IF resolved.anchor = NoExpr
     THEN [anchor |-> locator.anchor, complex |-> TRUE]
     ELSE [anchor |-> IF isSubscriptMember
                         /\ ExprKind[resolved.anchor] = "SubscriptExpr"
                      THEN SubExpr[resolved.anchor]
                      ELSE resolved.anchor,
           complex |-> resolved.path # <<>>]

\* FailureDiagnostic::getFunctionArgApplyInfo, as far as the failure uses it:
\* whether the locator addresses an argument bound to an inout parameter
argIsInOut(ctx, locator) ==
  /\ \E i \in 1..Len(locator.path) : locator.path[i] = "ApplyArgToParam"
  /\ simplifyLocatorToAnchor(locator) # NoExpr
  /\ ctx.paramIsInOut

Diag(id, loc, args) == [id |-> id, loc |-> loc, args |-> args]

\* MissingOptionalUnwrapFailure::offerDefaultValueUnwrapFixIt
offerDefaultValueUnwrapFixIt(ctx, locator, expr) ==
  IF ExprKind[computeAnchor(locator).anchor] = "InOutExpr"
  THEN <<>>
  ELSE IF argIsInOut(ctx, locator)
  THEN <<>>
  ELSE <<Diag("unwrap_with_default_value", expr, <<"?? <#default value#>">>)>>

\* MissingOptionalUnwrapFailure::offerForceUnwrapFixIt
offerForceUnwrapFixIt(expr) ==
  <<Diag("unwrap_with_force_value", expr, <<"!">>)>>

\* the contexts a failure is diagnosed in: language version, the type of the
\* operand of try?, the parameter an argument is bound to, and how the
\* variable x refers to is declared
Contexts ==
  [swift5 : BOOLEAN, subExprOptional : BOOLEAN, paramIsInOut : BOOLEAN,
   localVar : {"multiUse", "noInit", "initVoid", "initNonVoid", "initIUO"}]

\* MissingOptionalUnwrapFailure::diagnoseAsError
MissingOptionalUnwrapFailure_diagnoseAsError(ctx, baseType, unwrappedType, locator) ==
  LET ca == computeAnchor(locator)
      anchor == IF ca.anchor # NoExpr /\ ExprKind[ca.anchor] = "AssignExpr"
                THEN SubExpr[ca.anchor] ELSE ca.anchor
      unwrappedExpr == anchor
      notUnwrapped == Diag("optional_not_unwrapped", unwrappedExpr,
                           <<baseType, unwrappedType>>)
      guard == Diag("unwrap_with_guard", "varDecl",
                    <<IF ctx.localVar = "initVoid"
                      THEN " else { return }"
                      ELSE " else { return <#default value#> }">>)
      iuo == IF ctx.localVar = "initIUO"
             THEN <<Diag("unwrap_iuo_initializer", "initializer",
                         <<baseType>>)>>
             ELSE <<>>
  IN IF ca.complex THEN [ret |-> FALSE, diags |-> <<>>]
     ELSE IF ExprKind[unwrappedExpr] = "OptionalTryExpr"
     THEN IF ctx.swift5 /\ ctx.subExprOptional
          THEN [ret |-> FALSE, diags |-> <<>>]
          ELSE [ret |-> TRUE,
                diags |-> <<Diag("missing_unwrap_optional_try", unwrappedExpr,
                                 <<"try!">>)>>]
     ELSE IF getOptionalObjectType(baseType) = None
     THEN [ret |-> FALSE, diags |-> <<>>]
     ELSE IF ExprKind[unwrappedExpr] = "DeclRefExpr"
             /\ ctx.localVar = "noInit"
     THEN [ret |-> TRUE, diags |-> <<notUnwrapped>>]
     ELSE [ret |-> TRUE,
           diags |->
             <<notUnwrapped>>
             \o (IF ExprKind[unwrappedExpr] = "DeclRefExpr"
                    /\ ctx.localVar \in {"initVoid", "initNonVoid", "initIUO"}
                 THEN iuo \o <<guard>>
                      \o offerDefaultValueUnwrapFixIt(ctx, locator,
                                                      "initializer")
                      \o offerForceUnwrapFixIt("initializer")
                 ELSE <<>>)
             \o offerDefaultValueUnwrapFixIt(ctx, locator, unwrappedExpr)
             \o offerForceUnwrapFixIt(unwrappedExpr)]

\* FailureDiagnostic::diagnose with the base diagnoseAsNote, which
\* MissingOptionalUnwrapFailure does not override
MissingOptionalUnwrapFailure_diagnose(ctx, baseType, unwrappedType, locator, asNote) ==
  IF asNote THEN [ret |-> FALSE, diags |-> <<>>]
  ELSE MissingOptionalUnwrapFailure_diagnoseAsError(ctx, baseType,
                                                    unwrappedType, locator)

\* enum class FixKind
FixKinds ==
  {"ForceOptional", "UnwrapOptionalBase",
   "UnwrapOptionalBaseWithOptionalResult", "ForceDowncast", "AddressOf",
   "RemoveAddressOf", "CoerceToCheckedCast", "ExplicitlyEscaping",
   "RelabelArguments", "TreatRValueAsLValue", "AddConformance",
   "SkipSameTypeRequirement", "SkipSuperclassRequirement",
   "ContextualMismatch", "GenericArgumentsMismatch", "AutoClosureForwarding",
   "RemoveUnwrap", "InsertCall", "UsePropertyWrapper", "UseWrappedValue",
   "UseSubscriptOperator", "DefineMemberBasedOnUse",
   "AllowTypeOrInstanceMember", "AllowInvalidPartialApplication",
   "AllowInvalidInitRef", "AllowMemberRefOnExistential",
   "AddMissingArguments", "AllowClosureParameterDestructuring",
   "MoveOutOfOrderArgument", "AllowInaccessibleMember",
   "AllowAnyObjectKeyPathRoot", "TreatKeyPathSubscriptIndexAsHashable",
   "AllowInvalidRefInKeyPath", "RemoveReturn",
   "ExplicitlySpecifyGenericArguments",
   "SkipUnhandledConstructInFunctionBuilder",
   "AllowMutatingMemberOnRValueBase"}

NoLocator == [anchor |-> NoExpr, path |-> <<>>]

\* a ConstraintFix object: its class, the FixKind, Locator and IsWarning of
\* the base class, the discriminator a class stores (IsContextual, RefKind)
\* and the fields of ForceOptional
Fix(cls, kind, locator, warning, disc) ==
  [cls |-> cls, kind |-> kind, locator |-> locator, isWarning |-> warning,
   disc |-> disc, BaseType |-> None, UnwrappedType |-> None,
   FullLocator |-> NoLocator]

\* the fix classes whose create() only forwards its arguments to the
\* constructor, with the FixKind the constructor passes on
SimpleFixClasses ==
  {<<"ForceDowncast", "ForceDowncast">>,
   <<"UnwrapOptionalBase", "UnwrapOptionalBase">>,
   <<"UnwrapOptionalBase", "UnwrapOptionalBaseWithOptionalResult">>,
   <<"AddAddressOf", "AddressOf">>,
   <<"TreatRValueAsLValue", "TreatRValueAsLValue">>,
   <<"CoerceToCheckedCast", "CoerceToCheckedCast">>,
   <<"MarkExplicitlyEscaping", "ExplicitlyEscaping">>,
   <<"RelabelArguments", "RelabelArguments">>,
   <<"SkipSameTypeRequirement", "SkipSameTypeRequirement">>,
   <<"SkipSuperclassRequirement", "SkipSuperclassRequirement">>,
   <<"ContextualMismatch", "ContextualMismatch">>,
   <<"KeyPathContextualMismatch", "ContextualMismatch">>,
   <<"CollectionElementContextualMismatch", "ContextualMismatch">>,
   <<"GenericArgumentsMismatch", "GenericArgumentsMismatch">>,
   <<"AutoClosureForwarding", "AutoClosureForwarding">>,
   <<"RemoveUnwrap", "RemoveUnwrap">>,
   <<"InsertExplicitCall", "InsertCall">>,
   <<"UsePropertyWrapper", "UsePropertyWrapper">>,
   <<"UseWrappedValue", "UseWrappedValue">>,
   <<"UseSubscriptOperator", "UseSubscriptOperator">>,
   <<"DefineMemberBasedOnUse", "DefineMemberBasedOnUse">>,
   <<"AllowMemberRefOnExistential", "AllowMemberRefOnExistential">>,
   <<"AllowTypeOrInstanceMember", "AllowTypeOrInstanceMember">>,
   <<"AllowMutatingMemberOnRValueBase", "AllowMutatingMemberOnRValueBase">>,
   <<"AllowClosureParamDestructuring", "AllowClosureParameterDestructuring">>,
   <<"AddMissingArguments", "AddMissingArguments">>,
   <<"MoveOutOfOrderArgument", "MoveOutOfOrderArgument">>,
   <<"AllowInaccessibleMember", "AllowInaccessibleMember">>,
   <<"AllowAnyObjectKeyPathRoot", "AllowAnyObjectKeyPathRoot">>,
   <<"TreatKeyPathSubscriptIndexAsHashable",
     "TreatKeyPathSubscriptIndexAsHashable">>,
   <<"RemoveAddressOf", "RemoveAddressOf">>,
   <<"RemoveReturn", "RemoveReturn">>,
   <<"ExplicitlySpecifyGenericArguments",
     "ExplicitlySpecifyGenericArguments">>,
   <<"SkipUnhandledConstructInFunctionBuilder",
     "SkipUnhandledConstructInFunctionBuilder">>}

\* variant: the fix is anchored at the locator as passed
ForceOptional_create_fullLocator(baseType, unwrappedType, locator) ==
  [Fix("ForceOptional", "ForceOptional", locator, FALSE, "")
     EXCEPT !.BaseType = baseType, !.UnwrappedType = unwrappedType,
            !.FullLocator = locator]

\* ForceOptional::create
ForceOptional_create(baseType, unwrappedType, locator) ==
  LET simplifiedLocator ==
        getConstraintLocator(simplifyLocatorToAnchor(locator))
  IN [Fix("ForceOptional", "ForceOptional", simplifiedLocator, FALSE, "")
        EXCEPT !.BaseType = baseType, !.UnwrappedType = unwrappedType,
               !.FullLocator = locator]

\* MissingConformance::forContextual / forRequirement
MissingConformance_create(isContextual, locator) ==
  Fix("MissingConformance", "AddConformance", locator, FALSE,
      IF isContextual THEN "Contextual" ELSE "Requirement")

\* AllowInvalidInitRef::dynamicOnMetatype / onProtocolMetatype /
\* onNonConstMetatype
AllowInvalidInitRef_create(refKind, locator) ==
  Fix("AllowInvalidInitRef", "AllowInvalidInitRef", locator, FALSE, refKind)

InitRefKinds == {"DynamicOnMetatype", "ProtocolMetatype", "NonConstMetatype"}

\* AllowInvalidPartialApplication::create
AllowInvalidPartialApplication_create(isWarning, locator) ==
  Fix("AllowInvalidPartialApplication", "AllowInvalidPartialApplication",
      locator, isWarning, "")

\* the member declarations a key path component can refer to
Members == [isFunc : BOOLEAN, isStatic : BOOLEAN, isGetterMutating : BOOLEAN]

NoFix == Fix("NoFix", "NoFix", NoLocator, FALSE, "")

\* AllowInvalidRefInKeyPath::forRef
AllowInvalidRefInKeyPath_forRef(member, locator) ==
  IF member.isFunc
  THEN Fix("AllowInvalidRefInKeyPath", "AllowInvalidRefInKeyPath", locator,
           FALSE, "Method")
  ELSE IF member.isStatic
  THEN Fix("AllowInvalidRefInKeyPath", "AllowInvalidRefInKeyPath", locator,
           FALSE, "StaticMember")
  ELSE IF member.isGetterMutating
  THEN Fix("AllowInvalidRefInKeyPath", "AllowInvalidRefInKeyPath", locator,
           FALSE, "MutatingGetter")
  ELSE NoFix

\* a FailureDiagnostic object: its class and the arguments the model follows
Failure(type, locator) ==
  [type |-> type, locator |-> locator, BaseType |-> None,
   UnwrappedType |-> None]

NoFailure == Failure("NoFailure", NoLocator)

\* variant: the failure is built from the fix's own (simplified) locator
ForceOptional_diagnose_ownLocator(fix) ==
  [Failure("MissingOptionalUnwrapFailure", fix.locator)
     EXCEPT !.BaseType = fix.BaseType, !.UnwrappedType = fix.UnwrappedType]

\* ForceOptional::diagnose
ForceOptional_diagnose(fix) ==
  [Failure("MissingOptionalUnwrapFailure", fix.FullLocator)
     EXCEPT !.BaseType = fix.BaseType, !.UnwrappedType = fix.UnwrappedType]

\* MissingConformance::diagnose
MissingConformance_diagnose(fix) ==
  IF fix.disc = "Contextual"
  THEN Failure("MissingContextualConformanceFailure", fix.locator)
  ELSE Failure("MissingConformanceFailure", fix.locator)

\* AllowInvalidInitRef::diagnose
AllowInvalidInitRef_diagnose(fix) ==
  CASE fix.disc = "DynamicOnMetatype" ->
         Failure("InvalidDynamicInitOnMetatypeFailure", fix.locator)
    [] fix.disc = "ProtocolMetatype" ->
         Failure("InitOnProtocolMetatypeFailure", fix.locator)
    [] fix.disc = "NonConstMetatype" ->
         Failure("ImplicitInitOnNonConstMetatypeFailure", fix.locator)
    [] OTHER -> NoFailure

\* variant: the switch lacks the Method case
AllowInvalidRefInKeyPath_diagnose_noMethod(fix) ==
  CASE fix.disc = "StaticMember" ->
         Failure("InvalidStaticMemberRefInKeyPath", fix.locator)
    [] fix.disc = "MutatingGetter" ->
         Failure("InvalidMemberWithMutatingGetterInKeyPath", fix.locator)
    [] OTHER -> NoFailure

\* AllowInvalidRefInKeyPath::diagnose
AllowInvalidRefInKeyPath_diagnose(fix) ==
  CASE fix.disc = "StaticMember" ->
         Failure("InvalidStaticMemberRefInKeyPath", fix.locator)
    [] fix.disc = "MutatingGetter" ->
         Failure("InvalidMemberWithMutatingGetterInKeyPath", fix.locator)
    [] fix.disc = "Method" ->
         Failure("InvalidMethodRefInKeyPath", fix.locator)
    [] OTHER -> NoFailure

\* the failure class each remaining diagnose() override constructs
SimpleFailureType ==
  [ForceDowncast |-> "MissingExplicitConversionFailure",
   UnwrapOptionalBase |-> "MemberAccessOnOptionalBaseFailure",
   AddAddressOf |-> "MissingAddressOfFailure",
   TreatRValueAsLValue |-> "RValueTreatedAsLValueFailure",
   CoerceToCheckedCast |-> "MissingForcedDowncastFailure",
   MarkExplicitlyEscaping |-> "NoEscapeFuncToTypeConversionFailure",
   RelabelArguments |-> "LabelingFailure",
   SkipSameTypeRequirement |-> "SameTypeRequirementFailure",
   SkipSuperclassRequirement |-> "SuperclassRequirementFailure",
   ContextualMismatch |-> "ContextualFailure",
   KeyPathContextualMismatch |-> "ContextualFailure",
   CollectionElementContextualMismatch |->
     "CollectionElementContextualFailure",
   GenericArgumentsMismatch |-> "GenericArgumentsMismatchFailure",
   AutoClosureForwarding |-> "AutoClosureForwardingFailure",
   RemoveUnwrap |-> "NonOptionalUnwrapFailure",
   InsertExplicitCall |-> "MissingCallFailure",
   UsePropertyWrapper |-> "ExtraneousPropertyWrapperUnwrapFailure",
   UseWrappedValue |-> "MissingPropertyWrapperUnwrapFailure",
   UseSubscriptOperator |-> "SubscriptMisuseFailure",
   DefineMemberBasedOnUse |-> "MissingMemberFailure",
   AllowMemberRefOnExistential |-> "InvalidMemberRefOnExistential",
   AllowTypeOrInstanceMember |-> "AllowTypeOrInstanceMemberFailure",
   AllowInvalidPartialApplication |-> "PartialApplicationFailure",
   AllowMutatingMemberOnRValueBase |-> "MutatingMemberRefOnImmutableBase",
   AllowClosureParamDestructuring |-> "ClosureParamDestructuringFailure",
   AddMissingArguments |-> "MissingArgumentsFailure",
   MoveOutOfOrderArgument |-> "OutOfOrderArgumentFailure",
   AllowInaccessibleMember |-> "InaccessibleMemberFailure",
   AllowAnyObjectKeyPathRoot |-> "AnyObjectKeyPathRootFailure",
   TreatKeyPathSubscriptIndexAsHashable |->
     "KeyPathSubscriptIndexHashableFailure",
   RemoveAddressOf |-> "InvalidUseOfAddressOf",
   RemoveReturn |-> "ExtraneousReturnFailure",
   ExplicitlySpecifyGenericArguments |-> "MissingGenericArgumentsFailure",
   SkipUnhandledConstructInFunctionBuilder |->
     "SkipUnhandledConstructInFunctionBuilderFailure"]

\* ConstraintFix::diagnose, dispatched on the class of the fix: the failure
\* object the override constructs
ConstraintFix_diagnose(fix) ==
  CASE fix.cls = "ForceOptional" -> ForceOptional_diagnose(fix)
    [] fix.cls = "MissingConformance" -> MissingConformance_diagnose(fix)
    [] fix.cls = "AllowInvalidInitRef" -> AllowInvalidInitRef_diagnose(fix)
    [] fix.cls = "AllowInvalidRefInKeyPath" ->
         AllowInvalidRefInKeyPath_diagnose(fix)
    [] fix.cls \in DOMAIN SimpleFailureType ->
         Failure(SimpleFailureType[fix.cls], fix.locator)
    [] OTHER -> NoFailure

\* failure.diagnose(asNote) for the failure class the model follows in
\* detail; the empty sequence stands for the result of the other classes
FailureOutcome(ctx, failure, asNote) ==
  IF failure.type = "MissingOptionalUnwrapFailure"
  THEN <<MissingOptionalUnwrapFailure_diagnose(ctx, failure.BaseType,
           failure.UnwrappedType, failure.locator, asNote)>>
  ELSE <<>>

(***************************************************************************)
(* Recording fixes in the constraint system and diagnosing them.           *)
(***************************************************************************)
\* the locator and the context the fixes of SpecFix are recorded with
SomeLocator == [anchor |-> "x", path |-> <<>>]

SomeContext ==
  [swift5 |-> TRUE, subExprOptional |-> FALSE, paramIsInOut |-> FALSE,
   localVar |-> "multiUse"]

NoArgs == [BaseType |-> None, UnwrappedType |-> None, locator |-> NoLocator]

\* ConstraintSystem::recordFix: the fix a factory returned is appended to
\* the fixes of the system; a null fix is not recorded
recordFix(fix, args) ==
  /\ fix # NoFix
  /\ Cardinality(recordedFixes) < MaxFixes
  /\ recordedFixes' = recordedFixes \cup {[fix |-> fix, args |-> args]}
  /\ UNCHANGED <<fixCtx, diagnosedLog>>
  /\ UNCHANGED nonFixVars

\* the create() of a class of SimpleFixClasses
RecordSimpleFix(c) ==
  /\ c \in SimpleFixClasses
  /\ recordFix(Fix(c[1], c[2], SomeLocator, FALSE, ""), NoArgs)

RecordMissingConformance(isContextual) ==
  /\ isContextual \in BOOLEAN
  /\ recordFix(MissingConformance_create(isContextual, SomeLocator), NoArgs)

RecordAllowInvalidInitRef(refKind) ==
  /\ refKind \in InitRefKinds
  /\ recordFix(AllowInvalidInitRef_create(refKind, SomeLocator), NoArgs)

RecordAllowInvalidPartialApplication(isWarning) ==
  /\ isWarning \in BOOLEAN
  /\ recordFix(AllowInvalidPartialApplication_create(isWarning, SomeLocator),
               NoArgs)

RecordAllowInvalidRefInKeyPath(member) ==
  /\ member \in Members
  /\ recordFix(AllowInvalidRefInKeyPath_forRef(member, SomeLocator), NoArgs)

RecordForceOptional(baseType, unwrappedType, locator) ==
  /\ locator \in Locators
  /\ recordFix(ForceOptional_create(baseType, unwrappedType, locator),
               [BaseType |-> baseType, UnwrappedType |-> unwrappedType,
                locator |-> locator])

\* fix->diagnose(asNote) on a recorded fix: the override constructs its
\* failure and returns failure.diagnose(asNote)
DiagnoseFix(r, asNote) ==
  /\ r \in recordedFixes
  /\ LET failure == ConstraintFix_diagnose(r.fix)
     IN diagnosedLog' = diagnosedLog \cup
          {[fix |-> r.fix, args |-> r.args, asNote |-> asNote,
            failure |-> failure,
            outcome |-> FailureOutcome(fixCtx, failure, asNote)]}
  /\ UNCHANGED <<fixCtx, recordedFixes>>
  /\ UNCHANGED nonFixVars

(***************************************************************************)
(* Properties of the fix to failure delegation.                            *)
(***************************************************************************)
\* every FixKind is the kind of some fix class a factory creates
EveryKindHasAClass ==
  \A k \in FixKinds :
    \/ k \in {"ForceOptional", "AddConformance", "AllowInvalidInitRef",
              "AllowInvalidPartialApplication", "AllowInvalidRefInKeyPath"}
    \/ \E c \in SimpleFixClasses : c[2] = k

\* C8 as stated: the failure type constructed by diagnose() is determined by
\* the FixKind of the fix alone.
C8_TypeByKindAlone ==
  \A e1, e2 \in diagnosedLog :
    e1.fix.kind = e2.fix.kind => e1.failure.type = e2.failure.type

\* C8: every diagnosed fix constructs a failure diagnostic (no fallback, no
\* kind without one), its kind is a FixKind, and the failure type is
\* determined by the class of the fix together with the discriminator the
\* fix stores (IsContextual, RefKind); every FixKind has a fix class.
C8_TypeByClassAndDiscriminator ==
  /\ EveryKindHasAClass
  /\ \A e \in diagnosedLog :
       /\ e.fix.kind \in FixKinds
       /\ e.failure.type # NoFailure.type
       /\ e.failure.locator \in {e.fix.locator, e.fix.FullLocator}
  /\ \A e1, e2 \in diagnosedLog :
       (e1.fix.cls = e2.fix.cls /\ e1.fix.disc = e2.fix.disc)
         => e1.failure.type = e2.failure.type

C8_Witness ==
  \E e1, e2 \in diagnosedLog :
    /\ e1.fix.cls = "AllowInvalidRefInKeyPath" /\ e1.fix.disc = "Method"
    /\ e2.fix.kind = "ContextualMismatch"
    /\ e2.failure.type = "CollectionElementContextualFailure"

\* C9: diagnosing a ForceOptional fix created with (B, U, L) gives exactly
\* the result and the diagnostics of MissingOptionalUnwrapFailure(B, U, L)
\* diagnosed with the same asNote, L being the full locator passed to
\* create and not the simplified locator the fix is anchored at.
C9_ForceOptionalDelegates ==
  \A e \in diagnosedLog :
    e.fix.cls = "ForceOptional" =>
      /\ e.failure.type = "MissingOptionalUnwrapFailure"
      /\ e.outcome =
           <<MissingOptionalUnwrapFailure_diagnose(fixCtx, e.args.BaseType,
               e.args.UnwrappedType, e.args.locator, e.asNote)>>

C9_Witness ==
  \E e \in diagnosedLog :
    /\ e.fix.cls = "ForceOptional"
    /\ e.fix.locator # e.fix.FullLocator
    /\ ~e.asNote
    /\ e.outcome[1].ret
    /\ Len(e.outcome[1].diags) >= 3
    /\ e.outcome[1] #
         MissingOptionalUnwrapFailure_diagnose(fixCtx, e.fix.BaseType,
           e.fix.UnwrappedType, e.fix.locator, FALSE)

\* the recorded ForceOptional fixes: args.locator is the locator passed to
\* create, fix.locator the locator of what it simplifies to
UnwrapFixes == {r \in recordedFixes : r.fix.cls = "ForceOptional"}

IsSuffix(s, t) == \E k \in 0..Len(t) : s = SubSeq(t, k + 1, Len(t))

NoStage == "NoStage"

Req(kind, decl, stage) == [kind |-> kind, decl |-> decl, stage |-> stage]

\* the requests the checked program can make: a request is its kind and its
\* input tuple (the TypeResolutionStage is an input of InheritedTypeRequest)
Requests ==
  {Req("DefaultDefinitionTypeRequest", "d1", NoStage),
   Req("InheritedTypeRequest", "d1", "Structural"),
   Req("InheritedTypeRequest", "d1", "Interface"),
   Req("InheritedTypeRequest", "d2", "Interface"),
   Req("InheritedDeclsReferencedRequest", "d1", NoStage),
   Req("SelfBoundsFromWhereClauseRequest", "d1", NoStage)}

NoRequest == Req("NoRequest", "none", NoStage)

RequestKinds == {r.kind : r \in Requests}

\* the declarations requests are about, and those that are associated types
EvalDecls == {r.decl : r \in Requests}

AssocTypeDecls ==
  {r.decl : r \in {q \in Requests : q.kind = "DefaultDefinitionTypeRequest"}}

\* variant: DefaultDefinitionTypeRequest is declared Uncached
TypeCheckRequestCacheKind_defaultDefinitionUncached ==
  [DefaultDefinitionTypeRequest |-> "Uncached",
   InheritedTypeRequest         |-> "SeparatelyCached"]

\* variant: InheritedTypeRequest is declared Cached
TypeCheckRequestCacheKind_inheritedTypeCached ==
  [DefaultDefinitionTypeRequest |-> "Cached",
   InheritedTypeRequest         |-> "Cached"]

\* the CacheKind argument of the SimpleRequest base of the requests of
\* TypeCheckRequests.h
TypeCheckRequestCacheKind ==
  [DefaultDefinitionTypeRequest |-> "Cached",
   InheritedTypeRequest         |-> "SeparatelyCached"]

\* variant: the FIXME of InheritedDeclsReferencedRequest is carried out
NameLookupRequestCacheKind_inheritedDeclsCached ==
  [InheritedDeclsReferencedRequest  |-> "Cached",
   SelfBoundsFromWhereClauseRequest |-> "Uncached"]

\* the same of the requests of NameLookupRequests.h
NameLookupRequestCacheKind ==
  [InheritedDeclsReferencedRequest  |-> "Uncached",
   SelfBoundsFromWhereClauseRequest |-> "Uncached"]

CacheKindOf ==
  [k \in RequestKinds |->
     IF k \in DOMAIN TypeCheckRequestCacheKind
     THEN TypeCheckRequestCacheKind[k]
     ELSE NameLookupRequestCacheKind[k]]

\* InheritedTypeRequest::isCached(), declared in the header and defined out
\* of line: only the result of the interface stage is kept
InheritedTypeRequest_isCached(r) == r.stage = "Interface"

\* Request::isCached()
isCached(r) ==
  CASE r.kind = "InheritedTypeRequest" -> InheritedTypeRequest_isCached(r)
    [] r.kind = "DefaultDefinitionTypeRequest" -> TRUE
    [] r.kind = "InheritedDeclsReferencedRequest" -> TRUE
    [] OTHER -> TRUE

\* variant: no request declares breakCycle()
hasBreakCycle_none(r) == FALSE

\* the requests that declare breakCycle()
hasBreakCycle(r) == r.kind = "SelfBoundsFromWhereClauseRequest"

\* the requests whose evaluate returns llvm::Expected and so can hand an
\* error of a request they evaluate on to their caller
returnsExpected(r) ==
  r.kind \in {"DefaultDefinitionTypeRequest", "InheritedTypeRequest"}

Ok(v) == [ok |-> TRUE, val |-> v]

Err(v) == [ok |-> FALSE, val |-> v]

NoResult == Err("NoResult")

CycleError == Err("CyclicalRequestError")

\* SelfBoundsFromWhereClauseRequest::breakCycle
breakCycle(r) == Ok("EmptySelfBounds")

\* what a request's body does about evaluating another request: not known
\* before the body first reaches that point, no evaluation, or the
\* evaluation of req through evaluateOrDefault or through evaluate
Unknown == [known |-> FALSE, req |-> NoRequest, orDefault |-> FALSE]

NoCall == [known |-> TRUE, req |-> NoRequest, orDefault |-> FALSE]

Call(c, orDefault) == [known |-> TRUE, req |-> c, orDefault |-> orDefault]

CallsOf(r) ==
  {Call(c, TRUE) : c \in Requests}
  \cup (IF returnsExpected(r) THEN {Call(c, FALSE) : c \in Requests} ELSE {})

\* DefaultDefinitionTypeRequest::evaluate: the branch taken
DefaultDefinitionBranch(r) ==
  IF Resolver[r.decl] THEN "load"
  ELSE IF defaultDefinition[r.decl] THEN "resolve"
  ELSE "none"

\* whether the body of r reaches the point where it evaluates a request
ReachesCall(r) ==
  r.kind = "DefaultDefinitionTypeRequest" =>
    DefaultDefinitionBranch(r) = "resolve"

\* the value the body of r computes when nothing it evaluates fails
BodyValue(r) ==
  CASE r.kind = "DefaultDefinitionTypeRequest" ->
         (CASE DefaultDefinitionBranch(r) = "load" -> Ok("LoadedDefault")
            [] DefaultDefinitionBranch(r) = "resolve" -> Ok("ResolvedDefault")
            [] OTHER -> Ok("NullType"))
    [] r.kind = "InheritedTypeRequest" -> Ok("InheritedType")
    [] r.kind = "InheritedDeclsReferencedRequest" -> Ok("ReferencedDecls")
    [] OTHER -> Ok("SelfBounds")

\* the result of the body of the frame: an error of the request it
\* evaluated with evaluate is handed on, evaluateOrDefault swallows it
BodyResult(frame) ==
  IF /\ frame.pc = "called"
     /\ ~frame.sub.ok
     /\ ~calleeOf[frame.req].orDefault
  THEN frame.sub
  ELSE BodyValue(frame.req)

(***************************************************************************)
(* The Evaluator.                                                          *)
(***************************************************************************)
RequestsOf(frames) == [i \in 1..Len(frames) |-> frames[i].req]

\* variant: a frame of the same kind counts as the request being active
IsActive_byKind(r, frames) ==
  \E i \in 1..Len(frames) : frames[i].req.kind = r.kind

\* the request is on the active stack
IsActive(r, frames) == \E i \in 1..Len(frames) : frames[i].req = r

\* the frame r occupies on the active stack
ActiveIndex(r, frames) ==
  IF \E i \in 1..Len(frames) : frames[i].req = r
  THEN CHOOSE i \in 1..Len(frames) : frames[i].req = r
  ELSE 0

\* variant: the frame of the original occurrence gets a note as well
CycleSteps_fromOriginal(r, frames) ==
  LET i == ActiveIndex(r, frames)
      n == Len(frames)
  IN [k \in 1..(n - i + 1) |-> frames[n + 1 - k].req]

\* the frames noteCycleStep is called on: from the top of the stack down to,
\* not including, the original occurrence of r
CycleSteps(r, frames) ==
  LET i == ActiveIndex(r, frames)
      n == Len(frames)
  IN [k \in 1..(n - i) |-> frames[n + 1 - k].req]

\* whether this evaluation of r uses a cache
cachingApplies(r) == CacheKindOf[r.kind] # "Uncached" /\ isCached(r)

\* step 1: the table of the Evaluator for Cached, the request's own
\* getCachedResult for SeparatelyCached
getCachedResult(r) ==
  IF ~cachingApplies(r) THEN NoResult
  ELSE IF CacheKindOf[r.kind] = "Cached" THEN cache[r]
  ELSE slot[r.decl]

\* variant: the counter of the request kind is left alone
reportEvaluatedRequest_notCounted(st, r) == st

\* reportEvaluatedRequest: ++stats.getFrontendCounters().RequestType
reportEvaluatedRequest(st, r) == [st EXCEPT ![r.kind] = @ + 1]

\* a result is handed to the evaluation that asked for it
Deliver(frames, res) ==
  IF frames = <<>> THEN frames
  ELSE [frames EXCEPT ![Len(frames)].pc = "called",
                      ![Len(frames)].sub = res]

LogEntry(r, how, res, frames, execs, counted) ==
  [req |-> r, how |-> how, result |-> res, stackAt |-> RequestsOf(frames),
   execs |-> execs, counted |-> counted]

\* Evaluator::evaluate(r) called with the given active stack, up to the
\* point where the body of r starts or a result is returned without it
evaluate(r, frames) ==
  /\ nEvals' = nEvals + 1
  /\ IF getCachedResult(r) # NoResult
     THEN /\ activeRequests' = Deliver(frames, getCachedResult(r))
          /\ evalLog' = Append(evalLog,
               LogEntry(r, "hit", getCachedResult(r), frames, execCount[r],
                        statCount[r]))
          /\ UNCHANGED <<cycleLog, execCount>>
     ELSE IF IsActive(r, frames)
     THEN LET res == IF hasBreakCycle(r) THEN breakCycle(r) ELSE CycleError
          IN /\ cycleLog' = Append(cycleLog,
                  [diagnoseCycle |-> r,
                   noteCycleStep |-> CycleSteps(r, frames),
                   stack |-> RequestsOf(frames)])
             /\ activeRequests' = Deliver(frames, res)
             /\ evalLog' = Append(evalLog,
                  LogEntry(r, "cycle", res, frames, execCount[r],
                           statCount[r]))
             /\ UNCHANGED execCount
     ELSE /\ activeRequests' =
               Append(frames, [req |-> r, pc |-> "body", sub |-> NoResult])
          /\ execCount' = [execCount EXCEPT ![r] = @ + 1]
          /\ UNCHANGED <<cycleLog, evalLog>>

\* an external pass asks the Evaluator for r
TopEvaluate(r) ==
  /\ activeRequests = <<>>
  /\ nEvals < MaxEvals
  /\ topRequest' = r
  /\ topBase' = [cycles |-> Len(cycleLog), evals |-> Len(evalLog)]
  /\ evaluate(r, activeRequests)
  /\ UNCHANGED <<Resolver, defaultDefinition, calleeOf, cache, slot, stats,
                 statCount>>
  /\ UNCHANGED nonEvalVars

\* the body on top of the stack evaluates the request it depends on
BodyEvaluate(c) ==
  /\ activeRequests # <<>>
  /\ nEvals < MaxEvals
  /\ LET top == activeRequests[Len(activeRequests)]
     IN /\ top.pc = "body"
        /\ ReachesCall(top.req)
        /\ c \in CallsOf(top.req)
        /\ calleeOf[top.req] \in {Unknown, c}
        /\ calleeOf' = [calleeOf EXCEPT ![top.req] = c]
        /\ evaluate(c.req, activeRequests)
  /\ UNCHANGED <<Resolver, defaultDefinition, cache, slot, stats, statCount,
                 topRequest, topBase>>
  /\ UNCHANGED nonEvalVars

\* the body on top of the stack returns: steps 4 and 5
BodyReturn ==
  /\ activeRequests # <<>>
  /\ LET top == activeRequests[Len(activeRequests)]
         r == top.req
         rest == SubSeq(activeRequests, 1, Len(activeRequests) - 1)
         res == BodyResult(top)
         store == res.ok /\ cachingApplies(r)
     IN /\ \/ top.pc = "called"
           \/ ~ReachesCall(r)
           \/ calleeOf[r] \in {Unknown, NoCall}
        /\ calleeOf' = IF top.pc = "body" /\ ReachesCall(r)
                       THEN [calleeOf EXCEPT ![r] = NoCall]
                       ELSE calleeOf
        /\ Resolver' = IF r.kind = "DefaultDefinitionTypeRequest"
                       THEN [Resolver EXCEPT ![r.decl] = FALSE]
                       ELSE Resolver
        /\ cache' = IF store /\ CacheKindOf[r.kind] = "Cached"
                    THEN [cache EXCEPT ![r] = res] ELSE cache
        /\ slot' = IF store /\ CacheKindOf[r.kind] = "SeparatelyCached"
                   THEN [slot EXCEPT ![r.decl] = res] ELSE slot
        /\ stats' = reportEvaluatedRequest(stats, r)
        /\ statCount' = [statCount EXCEPT ![r] = @ + 1]
        /\ activeRequests' = Deliver(rest, res)
        /\ evalLog' = Append(evalLog,
             LogEntry(r, "executed", res, rest, execCount[r],
                      statCount[r] + 1))
  /\ UNCHANGED <<defaultDefinition, cycleLog, execCount, nEvals, topRequest,
                 topBase>>
  /\ UNCHANGED nonEvalVars

(***************************************************************************)
(* Properties of the Evaluator.                                            *)
(***************************************************************************)
EntriesOf(r) == {i \in 1..Len(evalLog) : evalLog[i].req = r}

ExecutedOf(r) == {i \in EntriesOf(r) : evalLog[i].how = "executed"}

\* the outermost evaluation asked for has returned
TopDone == activeRequests = <<>> /\ topRequest \in Requests

\* the evaluations that returned and the cycles diagnosed during the
\* running/last outermost evaluation
TopEntries == {i \in 1..Len(evalLog) : i > topBase.evals}

TopCycles == {i \in 1..Len(cycleLog) : i > topBase.cycles}

\* C1 as stated: a request declared Cached or SeparatelyCached that was
\* evaluated twice has executed its body once, returned the same result both
\* times and was counted once (evaluations cut short as cycles set aside).
C1_DeclaredCachedRunsOnce ==
  \A r \in Requests :
    CacheKindOf[r.kind] \in {"Cached", "SeparatelyCached"} =>
      \A i, j \in EntriesOf(r) :
        (i < j /\ evalLog[i].how # "cycle" /\ evalLog[j].how # "cycle") =>
          /\ evalLog[j].result = evalLog[i].result
          /\ evalLog[j].execs = 1
          /\ evalLog[j].counted = 1

\* the requests declared Cached or SeparatelyCached whose isCached() holds
C1_Caching(r) ==
  \/ r.kind = "DefaultDefinitionTypeRequest"
  \/ r.kind = "InheritedTypeRequest" /\ r.stage = "Interface"

\* C1: once a request that is declared Cached or SeparatelyCached and whose
\* isCached() holds has been evaluated successfully, every later evaluation
\* with equal inputs returns the identical result from the cache, without
\* executing the body or incrementing the counter again; when its first
\* execution is the successful one, the body has executed exactly once and
\* the counter was incremented exactly once for it.
C1_CachedAfterSuccess ==
  \A r \in Requests :
    C1_Caching(r) =>
      \A i \in ExecutedOf(r) :
        evalLog[i].result.ok =>
          /\ (\A k \in ExecutedOf(r) : k >= i) =>
               (evalLog[i].execs = 1 /\ evalLog[i].counted = 1)
          /\ \A j \in EntriesOf(r) :
               j > i => /\ evalLog[j].how = "hit"
                        /\ evalLog[j].result = evalLog[i].result
                        /\ evalLog[j].execs = evalLog[i].execs
                        /\ evalLog[j].counted = evalLog[i].counted
                        /\ execCount[r] = evalLog[i].execs
                        /\ statCount[r] = evalLog[i].counted

C1_Witness ==
  \E r \in Requests :
    /\ r.kind = "DefaultDefinitionTypeRequest"
    /\ \E i, j \in EntriesOf(r) :
         /\ i < j
         /\ evalLog[i].how = "executed"
         /\ evalLog[i].result = Ok("LoadedDefault")
         /\ evalLog[j].how = "hit"
         /\ evalLog[j].stackAt = <<>>
    /\ ~Resolver[r.decl]
    /\ execCount[r] = 1
    /\ stats[r.kind] = 1

\* the reported cycle: the request the cycle is diagnosed on followed by the
\* noted frames from the one it evaluated to the one that closes the loop
ReportedCycle(c) ==
  <<c.diagnoseCycle>>
  \o [k \in 1..Len(c.noteCycleStep) |->
        c.noteCycleStep[Len(c.noteCycleStep) + 1 - k]]

\* C2: a diagnosed cycle notes exactly the frames above the original
\* occurrence of the request, once each; and when A's body evaluates B and
\* B's body evaluates A, an outermost evaluation of A in which both bodies
\* run calls diagnoseCycle exactly once, on A, with the cycle [A, B] and
\* noteCycleStep called once, on B.
C2_TwoCycleDiagnosedOnce ==
  /\ \A i \in 1..Len(cycleLog) :
       LET c == cycleLog[i]
           n == Len(c.stack)
       IN \E p \in 1..n :
            /\ c.stack[p] = c.diagnoseCycle
            /\ Len(c.noteCycleStep) = n - p
            /\ \A k \in 1..(n - p) : c.noteCycleStep[k] = c.stack[n + 1 - k]
            /\ \A k \in 1..(n - p) : c.noteCycleStep[k] # c.diagnoseCycle
  /\ TopDone =>
       LET A == topRequest
           B == calleeOf[A].req
       IN (/\ B \in Requests
           /\ B # A
           /\ calleeOf[B].req = A
           /\ \E i \in TopEntries :
                evalLog[i].req = B /\ evalLog[i].how = "executed")
          => /\ Cardinality(TopCycles) = 1
             /\ \A i \in TopCycles :
                  /\ cycleLog[i].diagnoseCycle = A
                  /\ cycleLog[i].noteCycleStep = <<B>>
                  /\ ReportedCycle(cycleLog[i]) = <<A, B>>

C2_Witness ==
  /\ TopDone
  /\ calleeOf[topRequest].req \in Requests \ {topRequest}
  /\ calleeOf[calleeOf[topRequest].req].req = topRequest
  /\ \E i \in TopCycles :
       /\ cycleLog[i].diagnoseCycle = topRequest
       /\ cycleLog[i].noteCycleStep = <<calleeOf[topRequest].req>>
       /\ cycleLog[i].stack = <<topRequest, calleeOf[topRequest].req>>

\* C3: no request identity (kind and inputs) is on the active stack twice,
\* and an evaluation is cut short as a cycle exactly when the request asked
\* for was on the active stack at that time.
C3_ActiveStackDistinct ==
  /\ \A i, j \in 1..Len(activeRequests) :
       i # j => activeRequests[i].req # activeRequests[j].req
  /\ \A i \in 1..Len(evalLog) :
       LET e == evalLog[i]
       IN (e.how = "cycle") <=>
            (\E p \in 1..Len(e.stackAt) : e.stackAt[p] = e.req)
  /\ Len(cycleLog) =
       Cardinality({i \in 1..Len(evalLog) : evalLog[i].how = "cycle"})

C3_Witness ==
  /\ \E i, j \in 1..Len(activeRequests) :
       /\ i # j
       /\ activeRequests[i].req.kind = activeRequests[j].req.kind
  /\ \E i \in 1..Len(evalLog) :
       /\ evalLog[i].how = "cycle"
       /\ Len(evalLog[i].stackAt) >= 2

\* the evaluations of requests of kind k that returned, by how they went
EntriesOfKind(k, how) ==
  {i \in 1..Len(evalLog) : evalLog[i].req.kind = k /\ evalLog[i].how = how}

\* C11: the statistics counter of each request kind equals the number of
\* executions of evaluate bodies of that kind that have run to their end, so
\* that after any sequence of evaluations it is the number of executions;
\* an evaluation answered from a cache or cut short as a cycle leaves it
\* alone.
C11_CounterCountsExecutions ==
  /\ \A k \in RequestKinds :
       stats[k] = Cardinality(EntriesOfKind(k, "executed"))
  /\ \A r \in Requests :
       execCount[r] =
         Cardinality(ExecutedOf(r))
         + Cardinality({p \in 1..Len(activeRequests) :
                          activeRequests[p].req = r})
  /\ \A i \in 1..Len(evalLog) :
       evalLog[i].counted =
         Cardinality({j \in ExecutedOf(evalLog[i].req) : j <= i})

C11_Witness ==
  /\ activeRequests = <<>>
  /\ \E k \in RequestKinds :
       /\ stats[k] = 2
       /\ EntriesOfKind(k, "hit") # {}
       /\ EntriesOfKind(k, "cycle") # {}

\* the evaluations cut short because the request was on the active stack
CycleEntries == {i \in 1..Len(evalLog) : evalLog[i].how = "cycle"}

\* frame p of the stack an evaluation was asked on is still running, or its
\* body has returned after entry i
Unwound(i, p) ==
  LET e == evalLog[i]
  IN \/ /\ p <= Len(activeRequests)
        /\ RequestsOf(SubSeq(activeRequests, 1, p)) = SubSeq(e.stackAt, 1, p)
     \/ \E j \in ExecutedOf(e.stackAt[p]) :
          j > i /\ evalLog[j].stackAt = SubSeq(e.stackAt, 1, p - 1)

\* C12: an evaluation of a request that is on the active stack does not
\* execute the body (no execution is started or counted for it), returns
\* the breakCycle() value for SelfBoundsFromWhereClauseRequest and the
\* cycle error otherwise, hands that outcome to the frame that asked, and
\* every enclosing frame runs on and returns through its own body: once the
\* stack is empty each of them has returned.
C12_ReentryReturnsWithoutBody ==
  \A i \in CycleEntries :
    LET e == evalLog[i]
        before == {j \in ExecutedOf(e.req) : j < i}
        active == {p \in 1..Len(e.stackAt) : e.stackAt[p] = e.req}
    IN /\ active # {}
       /\ e.result = IF e.req.kind = "SelfBoundsFromWhereClauseRequest"
                     THEN Ok("EmptySelfBounds") ELSE CycleError
       /\ e.execs = Cardinality(before) + Cardinality(active)
       /\ e.counted = Cardinality(before)
       /\ i = Len(evalLog) =>
            /\ RequestsOf(activeRequests) = e.stackAt
            /\ activeRequests[Len(activeRequests)].pc = "called"
            /\ activeRequests[Len(activeRequests)].sub = e.result
       /\ \A p \in 1..Len(e.stackAt) : Unwound(i, p)
       /\ activeRequests = <<>> =>
            \A p \in 1..Len(e.stackAt) :
              \E j \in ExecutedOf(e.stackAt[p]) :
                j > i /\ evalLog[j].stackAt = SubSeq(e.stackAt, 1, p - 1)

C12_Witness ==
  /\ activeRequests = <<>>
  /\ \E i, j \in CycleEntries :
       /\ evalLog[i].result = Ok("EmptySelfBounds")
       /\ evalLog[j].result = CycleError

\* C14: a step of the Evaluator changes the generic table only for the
\* request, declared Cached, whose body just returned successfully, and the
\* request's own storage only for the request, declared SeparatelyCached,
\* whose body just returned successfully, leaving the generic table alone;
\* the return of an Uncached request, a failed return, a cycle and a cache
\* hit change neither.
C14_StoredPerPolicy ==
  [][LET newTable == {r \in Requests : cache'[r] # cache[r]}
         newSlot == {d \in EvalDecls : slot'[d] # slot[d]}
         returned == Len(evalLog') = Len(evalLog) + 1
         e == evalLog'[Len(evalLog')]
         success == /\ returned
                    /\ e.how = "executed"
                    /\ e.result.ok
                    /\ isCached(e.req)
         cached == success /\ e.req.kind = "DefaultDefinitionTypeRequest"
         separately == success /\ e.req.kind = "InheritedTypeRequest"
     IN /\ cached =>
             /\ newTable \subseteq {e.req}
             /\ cache'[e.req] = e.result
             /\ newSlot = {}
        /\ separately =>
             /\ newSlot \subseteq {e.req.decl}
             /\ slot'[e.req.decl] = e.result
             /\ newTable = {}
        /\ ~(cached \/ separately) => newTable = {} /\ newSlot = {}]_vars

C14_Witness ==
  /\ activeRequests = <<>>
  /\ \E r \in Requests : cache[r] # NoResult
  /\ \E d \in EvalDecls : slot[d] # NoResult
  /\ \E i \in 1..Len(evalLog) :
       evalLog[i].how = "executed" /\ ~evalLog[i].result.ok
  /\ CycleEntries # {}

\* the requests of the model declared Uncached
C10_Uncached(r) ==
  r.kind \in {"InheritedDeclsReferencedRequest",
              "SelfBoundsFromWhereClauseRequest"}

\* C10: a request declared Uncached is never memoized: no result of it is
\* stored, no evaluation of it returns a stored result, and its n-th
\* evaluation that runs to its end is the n-th execution of its body.
C10_UncachedNeverMemoized ==
  \A r \in Requests :
    C10_Uncached(r) =>
      /\ cache[r] = NoResult
      /\ \A j \in EntriesOf(r) :
           /\ evalLog[j].how \in {"executed", "cycle"}
           /\ evalLog[j].how = "executed" =>
                /\ evalLog[j].execs =
                     Cardinality({i \in ExecutedOf(r) : i <= j})
                /\ evalLog[j].counted = evalLog[j].execs
      /\ execCount[r] =
           Cardinality(ExecutedOf(r))
           + Cardinality({p \in 1..Len(activeRequests) :
                            activeRequests[p].req = r})

C10_Witness ==
  \E r \in Requests :
    /\ r.kind = "InheritedDeclsReferencedRequest"
    /\ isCached(r)
    /\ \E i, j \in ExecutedOf(r) :
         /\ i < j
         /\ evalLog[i].stackAt = <<>>
         /\ evalLog[j].stackAt = <<>>
         /\ evalLog[i].result = evalLog[j].result
    /\ execCount[r] = 2

(***************************************************************************)
(* checkInheritanceClause (TypeCheckDecl.cpp).                             *)
(***************************************************************************)
\* the declarations whose clause is checked; the protocols are not @objc
ClauseDecls ==
  {"ClassDecl", "EnumDecl", "ProtocolDecl", "StructDecl",
   "AbstractTypeParamDecl", "ProtocolExtension"}

\* the types an entry can resolve to: two classes, a protocol, AnyObject,
\* the subclass existential P & C and a struct
InheritedTys == {"C", "B", "P", "AnyObject", "P & C", "Int"}

NullType == "NullType"

ErrorType == "ErrorType"

\* what InheritedTypeRequest of an entry evaluates to
InheritedResults == {Ok(t) : t \in InheritedTys \cup {ErrorType}} \cup {CycleError}

Clauses == UNION {[1..n -> InheritedResults] : n \in 0..MaxClause}

isAnyObject(t) == t = "AnyObject"

isExistentialType(t) == t \in {"P", "AnyObject", "P & C"}

\* ExistentialLayout::explicitSuperclass, NullType when there is none
explicitSuperclass(t) == IF t = "P & C" THEN "C" ELSE NullType

hasExplicitAnyObject(t) == t = "AnyObject"

\* variant: one class only is seen as a class
getClassOrBoundGenericClass_oneClass(t) == t = "C"

getClassOrBoundGenericClass(t) == t \in {"C", "B"}

\* evaluateOrDefault: the output of a successful evaluation, the fallback
\* for every other outcome
evaluateOrDefault(res, fallback) == IF res.ok THEN res.val ELSE fallback

canHaveSuperclass(decl) == decl \in {"ClassDecl", "ProtocolDecl"}

\* source positions of the clause
StartOf(i) == [pos |-> "Start", idx |-> i]

EndOf(i) == [pos |-> "End", idx |-> i]

NameLoc == [pos |-> "Name", idx |-> 0]

\* variant: the range removed is the entry itself
getRemovalRange_entryOnly(n, i) == <<StartOf(i), EndOf(i)>>

\* getRemovalRange (entries are numbered from 1)
getRemovalRange(n, i) ==
  IF n = 1 THEN <<NameLoc, EndOf(i)>>
  ELSE IF i = 1 THEN <<StartOf(i), StartOf(i + 1)>>
  ELSE <<EndOf(i - 1), EndOf(i)>>

fixItRemoveChars(range) == [op |-> "remove", range |-> range, text |-> ""]

fixItInsert(loc, text) == [op |-> "insert", range |-> <<loc, loc>>, text |-> text]

\* a diagnostic of the clause: at is the position diagnosed (NameLoc for
\* decl->diagnose)
ClauseDiag(id, at, tys, fixIts) == [id |-> id, at |-> at, tys |-> tys, fixIts |-> fixIts]

\* what the body of the loop leaves behind for one entry
EntryResult(ds, superTy, superAt, anyObj) == [diags |-> ds, superclassTy |-> superTy, superclassRange |-> superAt, inheritedAnyObject |-> anyObj]

\* variant: only a type containing an error is skipped
skipsEntry_errorOnly(inheritedTy) == inheritedTy = ErrorType

\* if (!inheritedTy || inheritedTy->hasError()) continue;
skipsEntry(inheritedTy) == inheritedTy = NullType \/ inheritedTy = ErrorType

\* the diagnostic for a type that is neither a class nor a protocol
nonProtocolDiag(decl, ty) ==
  ClauseDiag(IF canHaveSuperclass(decl)
             THEN "inheritance_from_non_protocol_or_class"
             ELSE "inheritance_from_non_protocol", NameLoc, <<ty>>, <<>>)

\* the enum and class parts of the loop body, reached with the type left
\* after the existential part
checkNominalEntry(decl, n, i, ty, superTy, superAt, anyObj) ==
  LET at == StartOf(i)
      again == ClauseDiag("duplicate_inheritance", at, <<ty>>,
                          <<fixItRemoveChars(getRemovalRange(n, i))>>)
      notFirst(id) ==
        ClauseDiag(id, at, <<ty>>,
                   <<fixItRemoveChars(getRemovalRange(n, i)),
                     fixItInsert(StartOf(1), <<ty, ", ">>)>>)
  IN IF decl = "EnumDecl"
     THEN IF superTy # NullType
          THEN EntryResult(
                 <<IF superTy = ty THEN again
                   ELSE ClauseDiag("multiple_enum_raw_types", at,
                                   <<superTy, ty>>, <<>>)>>,
                 superTy, superAt, anyObj)
          ELSE EntryResult(
                 IF i > 1 THEN <<notFirst("raw_type_not_first")>> ELSE <<>>,
                 ty, i, anyObj)
     ELSE IF getClassOrBoundGenericClass(ty) /\ superTy # NullType
     THEN EntryResult(
            <<IF superTy = ty THEN again
              ELSE ClauseDiag("multiple_inheritance", at, <<superTy, ty>>,
                              <<>>)>>,
            superTy, superAt, anyObj)
     ELSE LET first == IF /\ getClassOrBoundGenericClass(ty)
                          /\ decl = "ClassDecl"
                          /\ i > 1
                       THEN <<notFirst("superclass_not_first")>> ELSE <<>>
          IN IF getClassOrBoundGenericClass(ty) /\ canHaveSuperclass(decl)
             THEN EntryResult(first, ty, i, anyObj)
             ELSE EntryResult(first \o <<nonProtocolDiag(decl, ty)>>,
                              superTy, superAt, anyObj)

\* the existential part of the loop body
checkExistentialEntry(decl, n, i, ty, superTy, superAt, anyObj) ==
  IF ~isExistentialType(ty)
  THEN checkNominalEntry(decl, n, i, ty, superTy, superAt, anyObj)
  ELSE IF explicitSuperclass(ty) # NullType /\ ~canHaveSuperclass(decl)
  THEN EntryResult(
         <<ClauseDiag("inheritance_from_protocol_with_superclass", NameLoc,
                      <<ty>>, <<>>)>>, superTy, superAt, anyObj)
  ELSE IF hasExplicitAnyObject(ty) /\ decl # "ProtocolDecl"
  THEN EntryResult(<<nonProtocolDiag(decl, ty)>>, superTy, superAt, anyObj)
  ELSE IF explicitSuperclass(ty) = NullType \/ decl = "ProtocolDecl"
  THEN EntryResult(<<>>, superTy, superAt, anyObj)
  ELSE checkNominalEntry(decl, n, i, explicitSuperclass(ty), superTy,
                         superAt, anyObj)

\* the body of the loop for entry i, inheritedTy being what
\* evaluateOrDefault returned for it
checkEntry(decl, compat, n, i, inheritedTy, superTy, superAt, anyObj) ==
  IF skipsEntry(inheritedTy) \/ decl = "AbstractTypeParamDecl"
  THEN EntryResult(<<>>, superTy, superAt, anyObj)
  ELSE IF isAnyObject(inheritedTy) /\ anyObj # 0
  THEN EntryResult(
         <<IF compat /\ decl = "ProtocolDecl"
           THEN ClauseDiag("duplicate_anyobject_class_inheritance",
                           StartOf(anyObj), <<>>,
                           <<fixItRemoveChars(getRemovalRange(n, anyObj))>>)
           ELSE ClauseDiag("duplicate_inheritance", StartOf(i),
                           <<inheritedTy>>,
                           <<fixItRemoveChars(getRemovalRange(n, anyObj))>>)>>,
         superTy, superAt, anyObj)
  ELSE checkExistentialEntry(decl, n, i, inheritedTy, superTy, superAt,
                             IF isAnyObject(inheritedTy) THEN i ELSE anyObj)

\* checkInheritanceClause up to its loop: a protocol extension with an
\* inheritance clause is diagnosed and nothing else is checked
BeginCheckInheritanceClause ==
  /\ clausePc = "entry"
  /\ IF clauseDecl = "ProtocolExtension" /\ clause # <<>>
     THEN /\ clauseDiags' = <<ClauseDiag("extension_protocol_inheritance",
                                         NameLoc, <<>>, <<>>)>>
          /\ clausePc' = "returned"
     ELSE /\ clauseDiags' = <<>>
          /\ clausePc' = IF clause = <<>> THEN "returned" ELSE "loop"
  /\ UNCHANGED <<clauseDecl, classKeyword, clause, clauseIdx, superclassTy,
                 superclassRange, inheritedAnyObject, entryLog>>
  /\ UNCHANGED nonInhVars

\* one iteration of the loop over the inheritance clause
CheckInheritedEntry ==
  /\ clausePc = "loop"
  /\ LET i == clauseIdx
         inheritedTy == evaluateOrDefault(clause[i], NullType)
         res == checkEntry(clauseDecl, classKeyword, Len(clause), i,
                           inheritedTy, superclassTy, superclassRange,
                           inheritedAnyObject)
     IN /\ entryLog' = Append(entryLog,
             [inheritedTy |-> inheritedTy,
              nDiags |-> Len(clauseDiags) + Len(res.diags),
              superclassTy |-> res.superclassTy])
        /\ clauseDiags' = clauseDiags \o res.diags
        /\ superclassTy' = res.superclassTy
        /\ superclassRange' = res.superclassRange
        /\ inheritedAnyObject' = res.inheritedAnyObject
        /\ clauseIdx' = i + 1
        /\ clausePc' = IF i = Len(clause) THEN "returned" ELSE "loop"
  /\ UNCHANGED <<clauseDecl, classKeyword, clause>>
  /\ UNCHANGED nonInhVars

(***************************************************************************)
(* checkEnumRawValues (TypeCheckDecl.cpp).                                 *)
(***************************************************************************)
\* the raw types of the checked enum: none, and types that conform to
\* ExpressibleByIntegerLiteral (Int, Double), to ExpressibleByStringLiteral,
\* to another literal protocol only (Character) and to none (Void)
RawTypes == {"NoRawType", "Int", "Double", "String", "Character", "Void"}

\* AutomaticEnumValueKind chosen for the raw type
valueKindOf(rawTy) ==
  CASE rawTy \in {"Int", "Double"} -> "Integer"
    [] rawTy = "String" -> "String"
    [] rawTy = "Character" -> "None"
    [] OTHER -> "NotLiteralConvertible"

\* a LiteralExpr: an integer literal is its digits and its negative flag
Lit(kind, text, num, negative, implicit) == [kind |-> kind, text |-> text, num |-> num, negative |-> negative, implicit |-> implicit, typed |-> FALSE]

NoLit == Lit("NoLit", "", 0, FALSE, FALSE)

IntLit(num, negative, implicit) == Lit("Int", "", num, negative, implicit)

StringLit(text, implicit) == Lit("String", text, 0, FALSE, implicit)

\* the raw value literals written in the program
WrittenLits ==
  {IntLit(2, TRUE, FALSE), IntLit(0, FALSE, FALSE), IntLit(1, FALSE, FALSE),
   Lit("Float", "1.5", 0, FALSE, FALSE), StringLit("a", FALSE)}

\* the names of the cases, by position, when no two are alike
CaseNames == <<"a", "b", "c", "d", "e">>

\* the elements as they are before the check: an element is its raw value
\* literal if written, whether it has associated values, and whether
\* validateDecl finds it invalid
EnumElements ==
  [raw : WrittenLits \cup {NoLit}, payload : BOOLEAN, invalid : {FALSE},
   typeChecked : {FALSE}]
  \cup {[raw |-> NoLit, payload |-> FALSE, invalid |-> TRUE,
          typeChecked |-> FALSE]}

Enums == UNION {[1..n -> EnumElements] : n \in 0..MaxCases}

\* the callers of checkEnumRawValues: visitEnumDecl calls it after it has
\* visited the members of the enum, visitExtensionDecl calls it for the
\* extended enum, whose members need not have been visited
EnumCallers == {"visitEnumDecl", "visitExtensionDecl"}

\* which later element, if any, is named like the first: when the members
\* were visited, checkRedeclaration has marked such an element invalid
RepeatedNames(caller, elts) ==
  {0} \cup {i \in 2..Len(elts) :
              caller = "visitEnumDecl" => elts[i].invalid}

\* EnumElementDecl::getNameStr of the element at position i
getNameStr(i) == IF i = repeatedName THEN CaseNames[1] ELSE CaseNames[i]

\* variant: the digits without the sign
getValue_magnitude(lit) == lit.num

\* IntegerLiteralExpr::getValue
getValue(lit) == IF lit.negative THEN 0 - lit.num ELSE lit.num

\* RawValueKey(LiteralExpr *): the literals of the model that are floats
\* have no exact integer value
RawValueKey(lit) ==
  CASE lit.kind = "Int" -> [kind |-> "Int", int |-> getValue(lit), str |-> ""]
    [] lit.kind = "Float" -> [kind |-> "Float", int |-> 0, str |-> lit.text]
    [] OTHER -> [kind |-> "String", int |-> 0, str |-> lit.text]

\* typeCheckExpression of a raw value literal against the raw type
typeChecks(rawTy, lit) ==
  CASE rawTy = "Int" -> lit.kind = "Int"
    [] rawTy = "Double" -> lit.kind \in {"Int", "Float"}
    [] OTHER -> lit.kind = "String"

EnumDiag(id, at) == [id |-> id, at |-> at]

CaseLoc(i) == [pos |-> "Case", idx |-> i]

LiteralLoc(i) == [pos |-> "Literal", idx |-> i]

RawTypeLoc == [pos |-> "RawType", idx |-> 0]

\* getAutomaticRawValueExpr: the literal, NoLit for null, and what is
\* diagnosed
getAutomaticRawValueExpr(valueKind, forElt, prev) ==
  CASE valueKind = "None" ->
         [lit |-> NoLit,
          diags |-> <<EnumDiag("enum_non_integer_convertible_raw_type_no_value",
                               CaseLoc(forElt))>>]
    [] valueKind = "String" ->
         [lit |-> StringLit(getNameStr(forElt), TRUE), diags |-> <<>>]
    [] OTHER ->
         IF prev = NoLit
         THEN [lit |-> IntLit(0, FALSE, TRUE), diags |-> <<>>]
         ELSE IF ~prev.typed THEN [lit |-> NoLit, diags |-> <<>>]
         ELSE IF prev.kind = "Int"
         THEN LET nextVal == getValue(prev) + 1
              IN [lit |-> IntLit(IF nextVal < 0 THEN 0 - nextVal ELSE nextVal,
                                 nextVal < 0, TRUE),
                  diags |-> <<>>]
         ELSE [lit |-> NoLit,
               diags |-> <<EnumDiag("enum_non_integer_raw_value_auto_increment",
                                    CaseLoc(forElt))>>]

\* variant: a raw value is always reported at the element
RawValueLoc_caseOnly(elts, i) == CaseLoc(i)

\* the location a duplicate is reported at for element i
RawValueLoc(elts, i) == IF elts[i].raw.implicit THEN CaseLoc(i) ELSE LiteralLoc(i)

\* the diagnostics of a duplicate raw value: elt is the element being
\* checked, lastExplicit the last element with an explicit raw value and
\* prevSource the RawValueSource found in the map
duplicateDiags(valueKind, elts, elt, lastExplicit, prevSource) ==
  LET foundElt == prevSource.sourceElt
  IN <<EnumDiag("enum_raw_value_not_unique", RawValueLoc(elts, elt))>>
     \o (IF lastExplicit # elt /\ lastExplicit # 0 /\ valueKind = "Integer"
         THEN <<EnumDiag("enum_raw_value_incrementing_from_here",
                         LiteralLoc(lastExplicit))>>
         ELSE <<>>)
     \o <<EnumDiag("enum_raw_value_used_here", RawValueLoc(elts, foundElt))>>
     \o (IF foundElt # prevSource.lastExplicitValueElt /\ valueKind = "Integer"
         THEN IF prevSource.lastExplicitValueElt # 0
              THEN <<EnumDiag("enum_raw_value_incrementing_from_here",
                              LiteralLoc(prevSource.lastExplicitValueElt))>>
              ELSE <<EnumDiag("enum_raw_value_incrementing_from_zero",
                              CaseLoc(1))>>
         ELSE <<>>)

\* checkEnumRawValues up to its loop
BeginCheckEnumRawValues ==
  /\ enumPc = "entry"
  /\ IF rawType = "NoRawType" THEN enumDiags' = enumDiags /\ enumPc' = "returned"
     ELSE IF valueKindOf(rawType) = "NotLiteralConvertible"
     THEN /\ enumDiags' = Append(enumDiags,
               EnumDiag("raw_type_not_literal_convertible", RawTypeLoc))
          /\ enumPc' = "returned"
     ELSE IF elements = <<>>
     THEN /\ enumDiags' = Append(enumDiags,
               EnumDiag("empty_enum_raw_type", RawTypeLoc))
          /\ enumPc' = "returned"
     ELSE enumDiags' = enumDiags /\ enumPc' = "loop"
  /\ enumIdx' = 1
  /\ prevValue' = NoLit
  /\ lastExplicitValueElt' = 0
  /\ uniqueRawValues' = {}
  /\ UNCHANGED <<rawType, elements, enumAssertFailed, enumCaller,
                 repeatedName>>
  /\ UNCHANGED nonEnumVars

\* one iteration of the loop over the elements of the enum
CheckEnumElement ==
  /\ enumPc = "loop"
  /\ LET i == enumIdx
         elt == elements[i]
         valueKind == valueKindOf(rawType)
         continue == enumPc' = IF i = Len(elements) THEN "returned" ELSE "loop"
         explicit == elt.raw # NoLit
         auto == getAutomaticRawValueExpr(valueKind, i, prevValue)
         raw == IF explicit THEN elt.raw ELSE auto.lit
         checked == typeChecks(rawType, raw)
         rawValue == [raw EXCEPT !.typed = checked]
         lastExplicit == IF explicit THEN i ELSE lastExplicitValueElt
         elts == [elements EXCEPT ![i].raw = rawValue,
                                  ![i].typeChecked = checked,
                                  ![i].invalid = ~checked]
         key == RawValueKey(rawValue)
         known == {s \in uniqueRawValues : s.key = key}
     IN /\ enumIdx' = i + 1
        /\ IF elt.typeChecked \/ elt.invalid
           THEN /\ continue
                /\ UNCHANGED <<elements, prevValue, lastExplicitValueElt,
                               uniqueRawValues, enumDiags, enumAssertFailed>>
           ELSE IF elt.payload
           THEN /\ continue
                /\ elements' = [elements EXCEPT ![i].invalid = TRUE]
                /\ enumDiags' = enumDiags \o
                     <<EnumDiag("enum_with_raw_type_case_with_argument",
                                CaseLoc(i)),
                       EnumDiag("enum_raw_type_here", RawTypeLoc)>>
                /\ UNCHANGED <<prevValue, lastExplicitValueElt,
                               uniqueRawValues, enumAssertFailed>>
           ELSE IF ~explicit /\ auto.lit = NoLit
           THEN /\ enumPc' = "returned"
                /\ elements' = [elements EXCEPT ![i].invalid = TRUE]
                /\ enumDiags' = enumDiags \o auto.diags
                /\ UNCHANGED <<prevValue, lastExplicitValueElt,
                               uniqueRawValues, enumAssertFailed>>
           ELSE /\ continue
                /\ elements' = elts
                /\ prevValue' = rawValue
                /\ lastExplicitValueElt' = lastExplicit
                /\ IF ~checked
                   THEN UNCHANGED <<uniqueRawValues, enumDiags,
                                    enumAssertFailed>>
                   ELSE IF known = {}
                   THEN /\ uniqueRawValues' = uniqueRawValues \cup
                             {[key |-> key, sourceElt |-> i,
                               lastExplicitValueElt |-> lastExplicit]}
                        /\ UNCHANGED <<enumDiags, enumAssertFailed>>
                   ELSE /\ enumDiags' = enumDiags \o
                             duplicateDiags(valueKind, elts, i, lastExplicit,
                                            CHOOSE s \in known : TRUE)
                        /\ enumAssertFailed' =
                             (enumAssertFailed \/ lastExplicit = 0)
                        /\ UNCHANGED uniqueRawValues
  /\ UNCHANGED <<rawType, enumCaller, repeatedName>>
  /\ UNCHANGED nonEnumVars

(***************************************************************************)
(* checkRedeclaration and the validation of the declarations it compares   *)
(* (TypeCheckDecl.cpp).                                                    *)
(***************************************************************************)
\* the top-level declarations of one base name in one source file, numbered
\* in source order
ValueDecls == 1..NumValueDecls

\* what a declaration is: a function, or a variable whose pattern binding
\* gets a type, is invalid with the variable typed all the same, or is
\* invalid or untyped with the variable left without a type
ValueDeclKinds == {"Func", "Var", "VarOfInvalidBinding", "VarUntyped"}

\* overload signatures; two declarations conflict when theirs are equal
OverloadSignatures == {"f()", "f(_:)"}

isVarDecl(kind) == kind # "Func"

NoType == "NoType"

\* VarDecl::markInvalid
VarDecl_markInvalid == [ty |-> ErrorType, invalid |-> TRUE]

\* validateDecl, as far as redeclaration checking sees it: the interface
\* type computed for the declaration and whether it is marked invalid;
\* setBoundVarsTypeError marks the variables of an invalid or untyped
\* pattern invalid unless a type without error was computed for them
validatedAs(kind) ==
  CASE kind = "Func" -> [ty |-> "FuncType", invalid |-> FALSE]
    [] kind = "VarUntyped" -> VarDecl_markInvalid
    [] OTHER -> [ty |-> "VarType", invalid |-> FALSE]

\* variant: the declaration is flagged and keeps its type
markInvalid_flagOnly(ty) == [ty |-> ty, invalid |-> TRUE]

\* the markInvalid lambda of checkRedeclaration, for a declaration that has
\* the interface type ty
markInvalid(ty) == [ty |-> IF ty # NoType THEN ErrorType ELSE ty, invalid |-> TRUE]

\* variant: declarations marked invalid are compared as well
ConflictsOf_withInvalid(current) ==
  {other \in ValueDecls :
     /\ other # current
     /\ sigOf[other] = sigOf[current]
     /\ interfaceType[other] # NoType}

\* the declarations the loop of checkRedeclaration can stop at for current:
\* valid, seen, and with a conflicting overload signature
ConflictsOf(current) ==
  {other \in ValueDecls :
     /\ other # current
     /\ ~isInvalid[other]
     /\ sigOf[other] = sigOf[current]
     /\ interfaceType[other] # NoType}

RedeclDiag(id, decl) == [id |-> id, decl |-> decl]

\* variant: the declaration being checked is the one diagnosed
diagnosedDecl_current(current, other) == current

\* std::swap(current, other) when current is before other in the buffer:
\* the declaration diagnosed
diagnosedDecl(current, other) == IF current < other THEN other ELSE current

\* validateDecl(d) for a declaration not validated yet
ValidateValueDecl(d) ==
  /\ interfaceType[d] = NoType
  /\ ~isInvalid[d]
  /\ interfaceType' = [interfaceType EXCEPT ![d] = validatedAs(kindOf[d]).ty]
  /\ isInvalid' = [isInvalid EXCEPT ![d] = validatedAs(kindOf[d]).invalid]
  /\ UNCHANGED <<kindOf, sigOf, swift5Only, alreadyCheckedRedeclaration,
                 visitedDecls, redeclDiags>>
  /\ UNCHANGED nonRedeclVars

\* DeclChecker::visit(d): the visitor validates d, then checkRedeclaration
\* runs on it; other is the declaration its loop stops at, 0 when it stops
\* at none
VisitValueDecl(d, other) ==
  /\ d \notin visitedDecls
  /\ visitedDecls' = visitedDecls \cup {d}
  /\ LET fresh == interfaceType[d] = NoType /\ ~isInvalid[d]
         ty == IF fresh THEN validatedAs(kindOf[d]).ty ELSE interfaceType[d]
         inv == IF fresh THEN validatedAs(kindOf[d]).invalid ELSE isInvalid[d]
         tys == [interfaceType EXCEPT ![d] = ty]
         invs == [isInvalid EXCEPT ![d] = inv]
         looks == ~alreadyCheckedRedeclaration[d] /\ ty # NoType
         found == IF looks /\ ~inv THEN ConflictsOf(d) ELSE {}
     IN /\ other \in (IF found = {} THEN {0} ELSE found)
        /\ IF other = 0
           THEN /\ alreadyCheckedRedeclaration' =
                     IF looks
                     THEN [alreadyCheckedRedeclaration EXCEPT ![d] = TRUE]
                     ELSE alreadyCheckedRedeclaration
                /\ interfaceType' = tys
                /\ isInvalid' = invs
                /\ UNCHANGED redeclDiags
           ELSE LET cur == diagnosedDecl(d, other)
                    prev == IF cur = d THEN other ELSE d
                    warn == /\ swift5Only
                            /\ ~(/\ isVarDecl(kindOf[cur])
                                 /\ isVarDecl(kindOf[prev])
                                 /\ tys[cur] = tys[prev])
                    marked == markInvalid(tys[cur])
                IN /\ alreadyCheckedRedeclaration' =
                        [alreadyCheckedRedeclaration EXCEPT ![d] = TRUE,
                                                            ![cur] = TRUE]
                   /\ redeclDiags' = redeclDiags \o
                        <<RedeclDiag(IF warn THEN "invalid_redecl_swift5_warning"
                                     ELSE "invalid_redecl", cur),
                          RedeclDiag("invalid_redecl_prev", prev)>>
                   /\ interfaceType' =
                        IF warn THEN tys ELSE [tys EXCEPT ![cur] = marked.ty]
                   /\ isInvalid' =
                        IF warn THEN invs
                        ELSE [invs EXCEPT ![cur] = marked.invalid]
  /\ UNCHANGED <<kindOf, sigOf, swift5Only>>
  /\ UNCHANGED nonRedeclVars

(***************************************************************************)
(* The validation state of declarations: validateDecl, validateExtension   *)
(* and validateDecl(PrecedenceGroupDecl) (TypeCheckDecl.cpp).              *)
(***************************************************************************)
ValidatedDecls == 1..NumValidated

\* a nominal type, a function, a variable of a pattern binding, an
\* extension, a precedence group
ValidatedKinds == {"Nominal", "Func", "Var", "Extension", "PrecedenceGroup"}

\* the declaration contexts validateDecl validates first
isContextKind(kind) == kind \in {"Nominal", "Extension"}

\* kinds and contexts: a member's context is an earlier nominal type or
\* extension at the top level
ValidatedWorlds ==
  {w \in [kind : [ValidatedDecls -> ValidatedKinds],
          parent : [ValidatedDecls -> ValidatedDecls \cup {0}]] :
     \A e \in ValidatedDecls :
       w.parent[e] # 0 =>
         /\ w.parent[e] < e
         /\ w.kind[e] \in {"Func", "Var"}
         /\ isContextKind(w.kind[w.parent[e]])
         /\ w.parent[w.parent[e]] = 0}

\* variant: only a finished validation counts as started
hasValidationStarted_finishedOnly(st) == st = "Checked"

hasValidationStarted(st) == st # "Unchecked"

isBeingValidated(st) == st = "Checking"

hasValidSignature(st) == st = "Checked"

\* the validation state as one value
Validation ==
  [st |-> validationState, pbd |-> bindingState, stk |-> validationStack,
   runs |-> bodyRuns, attrs |-> attrChecks, log |-> validateLog]

\* a call on e recorded with the state it found and what it went on to do
Logged(v, e, effect) ==
  [v EXCEPT !.log = Append(@, [decl |-> e, before |-> v.st[e],
                               effect |-> effect])]

\* DeclValidationRAII IBV(e): the body of the validation of e begins
beginValidation(v, e) ==
  [v EXCEPT !.st[e] = "Checking",
            !.runs[e] = @ + 1,
            !.stk = Append(@, [decl |-> e, phase |-> "body"])]

validateExtension(v, e) ==
  IF hasValidationStarted(v.st[e])
  THEN Logged(v, e, "none")
  ELSE beginValidation(Logged(v, e, "validate"), e)

\* validateDecl(PrecedenceGroupDecl *): checkDeclAttributesEarly and
\* checkDeclAttributes come before the test
validatePrecedenceGroup(v, e) ==
  LET w == [v EXCEPT !.attrs[e] = @ + 1]
  IN IF hasValidationStarted(w.st[e])
     THEN Logged(w, e, "attrs")
     ELSE beginValidation(Logged(w, e, "validate"), e)

\* the switch of validateDecl over the kind of e
validateKind(v, e) ==
  IF validKind[e] = "Var"
  THEN IF isBeingValidated(v.pbd[e])
       THEN v
       ELSE [v EXCEPT !.pbd[e] = "Checking",
                      !.runs[e] = @ + 1,
                      !.stk = Append(@, [decl |-> e, phase |-> "binding"])]
  ELSE beginValidation(v, e)

\* validateDecl(ValueDecl *) up to the point where it validates its context
\* or enters the switch
validateDecl(v, e) ==
  LET p == parentOf[e] IN
  IF hasValidationStarted(v.st[e])
  THEN Logged(v, e, "none")
  ELSE IF p = 0
  THEN validateKind(Logged(v, e, "validate"), e)
  ELSE IF hasValidationStarted(v.st[p])
  THEN LET w == Logged(Logged(v, e, "validate"), p, "none")
       IN IF hasValidSignature(w.st[p]) THEN validateKind(w, e) ELSE w
  ELSE LET w == [Logged(v, e, "validate")
                   EXCEPT !.stk = Append(@, [decl |-> e, phase |-> "context"])]
       IN IF validKind[p] = "Extension"
          THEN validateExtension(w, p)
          ELSE validateKind(Logged(w, p, "validate"), p)

\* the declaration whose validation is running, 0 if none
validatingDecl ==
  IF validationStack = <<>> THEN 0
  ELSE validationStack[Len(validationStack)].decl

validatingPhase ==
  IF validationStack = <<>> THEN "idle"
  ELSE validationStack[Len(validationStack)].phase

\* a validation can be asked for from outside and from the body of a
\* validation that is running
CanCallValidate ==
  /\ Len(validateLog) < MaxValidateCalls
  /\ validatingPhase \in {"idle", "body", "binding"}

SetValidation(v) ==
  /\ validationState' = v.st
  /\ bindingState' = v.pbd
  /\ validationStack' = v.stk
  /\ bodyRuns' = v.runs
  /\ attrChecks' = v.attrs
  /\ validateLog' = v.log
  /\ UNCHANGED <<validKind, parentOf>>
  /\ UNCHANGED nonValidVars

CallValidateDecl(e) ==
  /\ CanCallValidate
  /\ validKind[e] \in {"Nominal", "Func", "Var"}
  /\ SetValidation(validateDecl(Validation, e))

CallValidateExtension(e) ==
  /\ CanCallValidate
  /\ validKind[e] = "Extension"
  /\ SetValidation(validateExtension(Validation, e))

CallValidatePrecedenceGroup(e) ==
  /\ CanCallValidate
  /\ validKind[e] = "PrecedenceGroup"
  /\ SetValidation(validatePrecedenceGroup(Validation, e))

\* validateDecl after the validation of the context has returned
ContextValidated ==
  /\ validatingPhase = "context"
  /\ LET e == validatingDecl
         v == [Validation EXCEPT !.stk = SubSeq(@, 1, Len(@) - 1)]
     IN SetValidation(
          IF ~hasValidSignature(v.st[parentOf[e]]) THEN v
          ELSE IF hasValidationStarted(v.st[e]) THEN v
          ELSE validateKind(v, e))

\* case DeclKind::Var after validatePatternBindingEntries has returned: the
\* variable is set to checked before its attributes are validated
BindingValidated ==
  /\ validatingPhase = "binding"
  /\ LET e == validatingDecl
     IN SetValidation(
          [Validation EXCEPT
             !.pbd[e] = "Checked",
             !.st[e] = "Checked",
             !.stk = [@ EXCEPT ![Len(@)] = [decl |-> e, phase |-> "body"]]])

\* the end of a validation: the destructor of DeclValidationRAII
ValidationDone ==
  /\ validatingPhase = "body"
  /\ LET e == validatingDecl
     IN SetValidation(
          [Validation EXCEPT
             !.st[e] = "Checked",
             !.stk = SubSeq(@, 1, Len(@) - 1)])

(***************************************************************************)
(* Properties of checkInheritanceClause.                                   *)
(***************************************************************************)
\* the number of diagnostics and the superclass before entry j was checked
DiagsBefore(j) == IF j = 1 THEN 0 ELSE entryLog[j - 1].nDiags

SuperclassBefore(j) == IF j = 1 THEN NullType ELSE entryLog[j - 1].superclassTy

\* the entries whose InheritedTypeRequest did not evaluate to an output
FailedEntries == {j \in 1..Len(clause) : ~clause[j].ok}

\* the entries that resolve to a class, directly or as the superclass of a
\* subclass existential
ClassEntries == {j \in 1..Len(clause) : clause[j] \in {Ok("C"), Ok("B"), Ok("P & C")}}

ClassOf(j) == IF clause[j] = Ok("P & C") THEN "C" ELSE clause[j].val

\* C13: for every entry the loop has checked, evaluateOrDefault gave the
\* output of the request when it evaluated to one and the null type given
\* as fallback when it ended in an error or a cycle; the entries with the
\* fallback emit nothing and leave the recorded superclass alone, and the
\* pass goes on: it returns only after the last entry, and in a class the
\* first entry naming a class is recorded as the superclass whatever
\* entries failed before it.
C13_FallbackSkipsOnlyEntry ==
  /\ Len(entryLog) = clauseIdx - 1
  /\ (clausePc = "returned" /\ clauseDecl # "ProtocolExtension") =>
       Len(entryLog) = Len(clause)
  /\ \A j \in 1..Len(entryLog) :
       /\ entryLog[j].inheritedTy =
            IF clause[j].ok THEN clause[j].val ELSE NullType
       /\ j \in FailedEntries =>
            /\ entryLog[j].nDiags = DiagsBefore(j)
            /\ entryLog[j].superclassTy = SuperclassBefore(j)
       /\ (/\ clauseDecl = "ClassDecl"
           /\ j \in ClassEntries
           /\ \A k \in 1..(j - 1) : k \notin ClassEntries) =>
            entryLog[j].superclassTy = ClassOf(j)

C13_Witness ==
  /\ clausePc = "returned"
  /\ clauseDecl = "ClassDecl"
  /\ Len(clause) >= 2
  /\ clause[1] = CycleError
  /\ clause[2] = Ok("C")
  /\ Len(entryLog) = Len(clause)
  /\ superclassTy = "C"

\* the diagnostics emitted while entry j was checked
DiagsOfEntry(j) == SubSeq(clauseDiags, DiagsBefore(j) + 1, entryLog[j].nDiags)

\* C15: in a class whose clause names protocols and then, at entry j, a
\* class, checking entry j records that class as the superclass, where it
\* stays, and emits exactly one diagnostic: superclass_not_first at the
\* entry, with a fix-it removing the text from the end of the entry before
\* it to its own end and a fix-it inserting the class and ", " at the start
\* of the first entry.
C15_SuperclassNotFirst ==
  \A j \in 1..Len(entryLog) :
    (/\ clauseDecl = "ClassDecl"
     /\ j > 1
     /\ j \in ClassEntries
     /\ \A k \in 1..(j - 1) : clause[k] = Ok("P")) =>
      /\ entryLog[j].superclassTy = ClassOf(j)
      /\ superclassTy = ClassOf(j)
      /\ superclassRange = j
      /\ DiagsOfEntry(j) =
           <<[id |-> "superclass_not_first",
              at |-> StartOf(j),
              tys |-> <<ClassOf(j)>>,
              fixIts |->
                <<[op |-> "remove", range |-> <<EndOf(j - 1), EndOf(j)>>,
                   text |-> ""],
                  [op |-> "insert", range |-> <<StartOf(1), StartOf(1)>>,
                   text |-> <<ClassOf(j), ", ">>]>>]>>

C15_Witness ==
  /\ clausePc = "returned"
  /\ clauseDecl = "ClassDecl"
  /\ clause = <<Ok("P"), Ok("C")>>
  /\ superclassTy = "C"
  /\ Len(clauseDiags) = 1
  /\ clauseDiags[1].id = "superclass_not_first"

\* the class entries checked after a superclass was recorded
LaterClassEntries ==
  {j \in ClassEntries : j <= Len(entryLog) /\ SuperclassBefore(j) # NullType}

\* C21: in the clause of a class, an entry naming a class that is checked
\* after a superclass was recorded emits exactly one diagnostic,
\* duplicate_inheritance when it names the recorded superclass and
\* multiple_inheritance otherwise, and leaves the recorded superclass as it
\* was: the superclass is the class of the first class entry of the clause
C21_FirstClassIsSuperclass ==
  clauseDecl = "ClassDecl" =>
    \A j \in LaterClassEntries :
      /\ Len(DiagsOfEntry(j)) = 1
      /\ DiagsOfEntry(j)[1].id =
           (IF ClassOf(j) = SuperclassBefore(j) THEN "duplicate_inheritance"
            ELSE "multiple_inheritance")
      /\ DiagsOfEntry(j)[1].at = StartOf(j)
      /\ entryLog[j].superclassTy = SuperclassBefore(j)
      /\ \E k \in ClassEntries :
           /\ k < j
           /\ \A m \in 1..(k - 1) : m \notin ClassEntries
           /\ entryLog[j].superclassTy = ClassOf(k)

\* a class naming its superclass, another class and the superclass again
C21_Witness ==
  /\ clausePc = "returned"
  /\ clauseDecl = "ClassDecl"
  /\ clause = <<Ok("C"), Ok("B"), Ok("P & C")>>
  /\ superclassTy = "C"
  /\ Len(clauseDiags) = 2
  /\ clauseDiags[1].id = "multiple_inheritance"
  /\ clauseDiags[2].id = "duplicate_inheritance"

(***************************************************************************)
(* Properties of checkEnumRawValues.                                       *)
(***************************************************************************)
\* the elements the loop has given a type-checked raw value
Keyed == {j \in 1..Len(elements) : j < enumIdx /\ elements[j].typeChecked}

\* the earlier elements with the raw value of element j
EarlierEqual(j) ==
  {k \in Keyed : k < j /\ RawValueKey(elements[k].raw) = RawValueKey(elements[j].raw)}

\* the elements with a written raw value that repeats an earlier one
ExplicitDuplicates ==
  {j \in Keyed : ~elements[j].raw.implicit /\ EarlierEqual(j) # {}}

FirstEqual(j) == CHOOSE k \in EarlierEqual(j) : \A m \in EarlierEqual(j) : k <= m

\* where in the diagnostics 'raw value not unique' is reported at the
\* literal of element j
NotUniqueAt(j) ==
  {p \in 1..Len(enumDiags) :
     enumDiags[p] = EnumDiag("enum_raw_value_not_unique", LiteralLoc(j))}

EnumNotes ==
  {"enum_raw_value_used_here", "enum_raw_value_incrementing_from_here",
   "enum_raw_value_incrementing_from_zero"}

\* the diagnostic at p is followed by exactly the one note n
FollowedByOnly(p, n) ==
  /\ p + 1 <= Len(enumDiags)
  /\ enumDiags[p + 1] = n
  /\ p + 2 <= Len(enumDiags) => enumDiags[p + 2].id \notin EnumNotes

\* C17 as stated: a written raw value that repeats the raw value of an
\* earlier case is reported once at its literal, with one note, at the
\* literal of the earlier case.
C17_DuplicateReportedWithOneNote ==
  \A j \in ExplicitDuplicates :
    /\ Cardinality(NotUniqueAt(j)) = 1
    /\ \A p \in NotUniqueAt(j) :
         FollowedByOnly(p, EnumDiag("enum_raw_value_used_here",
                                    LiteralLoc(FirstEqual(j))))

\* C17: a written raw value that repeats the raw value of an earlier case
\* is reported once, as 'raw value not unique' at its literal; when the
\* first case with that value has a written raw value the report is
\* followed by exactly one note, 'used here' at the literal of that case;
\* when its raw value was generated the note is at the case itself and,
\* for an integer raw type, a second note says where the values were
\* incremented from.
C17_DuplicateReportedOnce ==
  \A j \in ExplicitDuplicates :
    LET f == FirstEqual(j)
    IN /\ Cardinality(NotUniqueAt(j)) = 1
       /\ \A p \in NotUniqueAt(j) :
            IF ~elements[f].raw.implicit
            THEN FollowedByOnly(p, EnumDiag("enum_raw_value_used_here",
                                            LiteralLoc(f)))
            ELSE /\ p + 1 <= Len(enumDiags)
                 /\ enumDiags[p + 1] =
                      EnumDiag("enum_raw_value_used_here", CaseLoc(f))
                 /\ rawType \in {"Int", "Double"} =>
                      /\ p + 2 <= Len(enumDiags)
                      /\ enumDiags[p + 2].id \in
                           {"enum_raw_value_incrementing_from_here",
                            "enum_raw_value_incrementing_from_zero"}

C17_Witness ==
  /\ enumPc = "returned"
  /\ rawType = "Int"
  /\ Len(elements) = 2
  /\ ExplicitDuplicates = {2}
  /\ ~elements[1].raw.implicit
  /\ enumDiags = <<EnumDiag("enum_raw_value_not_unique", LiteralLoc(2)),
                   EnumDiag("enum_raw_value_used_here", LiteralLoc(1))>>

\* the integer a literal denotes
LitValue(lit) == IF lit.negative THEN 0 - lit.num ELSE lit.num

\* the elements the loop has given a generated raw value
AutoValued ==
  {j \in 1..Len(elements) : j < enumIdx /\ elements[j].raw.implicit}

C30_DuplicateHasExplicit == ~enumAssertFailed

(***************************************************************************)
(* Properties of checkRedeclaration.                                       *)
(***************************************************************************)
\* the diagnostics that name one of the declarations a and b
DiagsAt(a, b) == SelectSeq(redeclDiags, LAMBDA g : g.decl \in {a, b})

\* a and b are functions with the same overload signature, which conflicts
\* in every language mode, and no other declaration has it
TwinFunctions(a, b) ==
  /\ a < b
  /\ kindOf[a] = "Func"
  /\ kindOf[b] = "Func"
  /\ sigOf[a] = sigOf[b]
  /\ ~swift5Only
  /\ \A c \in ValueDecls \ {a, b} : sigOf[c] # sigOf[a]

\* C18: once two top-level functions of one file with identical overload
\* signatures have both been visited, in whichever order, exactly one
\* invalid_redecl diagnostic has been emitted for them: it is at the
\* function later in the source, and its note is at the earlier one
C18_OneRedeclarationAtLater ==
  \A a, b \in ValueDecls :
    (TwinFunctions(a, b) /\ {a, b} \subseteq visitedDecls) =>
      DiagsAt(a, b) = <<RedeclDiag("invalid_redecl", b),
                        RedeclDiag("invalid_redecl_prev", a)>>

\* both functions visited and the conflict reported, a third declaration
\* not seen yet
C18_Witness ==
  /\ TwinFunctions(1, 2)
  /\ visitedDecls = {1, 2}
  /\ alreadyCheckedRedeclaration[1]
  /\ redeclDiags = <<RedeclDiag("invalid_redecl", 2),
                     RedeclDiag("invalid_redecl_prev", 1)>>
  /\ interfaceType[3] = NoType

\* the declarations diagnosed as invalid redeclarations
InvalidRedeclarations ==
  {d \in ValueDecls :
     \E i \in 1..Len(redeclDiags) :
       redeclDiags[i] = RedeclDiag("invalid_redecl", d)}

\* the variables validation found no type without error for
UntypedVars ==
  {d \in ValueDecls : kindOf[d] = "VarUntyped" /\ d \in visitedDecls}

RedeclErrorsAt(d) ==
  {i \in 1..Len(redeclDiags) : redeclDiags[i] = RedeclDiag("invalid_redecl", d)}

\* d is the first declaration in the source with its overload signature
EarliestOfSignature(d) ==
  \A other \in ValueDecls : sigOf[other] = sigOf[d] => d <= other

\* C26: whatever the number of declarations that conflict with one
\* another and the order in which they are validated and checked, a
\* declaration is reported as an invalid redeclaration at most once, and
\* the one that comes first in the source is never reported
C26_AtMostOneErrorNeverAtFirst ==
  \A d \in ValueDecls :
    /\ Cardinality(RedeclErrorsAt(d)) <= 1
    /\ EarliestOfSignature(d) => RedeclErrorsAt(d) = {}

\* three functions that conflict with one another, all checked: the
\* second and the third are reported
C26_Witness ==
  /\ \A d \in 1..3 : kindOf[d] = "Func" /\ sigOf[d] = sigOf[1]
  /\ ~swift5Only
  /\ {1, 2, 3} \subseteq visitedDecls
  /\ RedeclErrorsAt(1) = {}
  /\ Cardinality(RedeclErrorsAt(2)) = 1
  /\ Cardinality(RedeclErrorsAt(3)) = 1

(***************************************************************************)
(* Properties of the validation state.                                     *)
(***************************************************************************)
ValidationRank(st) ==
  CASE st = "Unchecked" -> 0 [] st = "Checking" -> 1 [] st = "Checked" -> 2

\* the calls made on e, and those that found its validation not started
CallsOn(e) == {i \in 1..Len(validateLog) : validateLog[i].decl = e}

FirstCallsOn(e) == {i \in CallsOn(e) : validateLog[i].before = "Unchecked"}

\* the step is a call on e that finds the validation of e started
IsLaterCallOn(e) ==
  /\ Len(validateLog') > Len(validateLog)
  /\ validateLog'[Len(validateLog) + 1].decl = e
  /\ validationState[e] # "Unchecked"

\* the validation state of no declaration moves backwards
ValidationOnlyAdvances ==
  \A e \in ValidatedDecls :
    ValidationRank(validationState'[e]) >= ValidationRank(validationState[e])

\* a call on a declaration whose validation has started begins no validation
\* and leaves every validation state and the running validations alone
LaterCallRestartsNothing ==
  \A e \in ValidatedDecls :
    IsLaterCallOn(e) =>
      UNCHANGED <<validationState, bindingState, validationStack, bodyRuns>>

\* C20 as stated: the validation state only advances and, once the
\* validation of a declaration has started, a later call of validateDecl,
\* validateExtension or the precedence-group validateDecl on it returns
\* immediately, doing nothing: no validation restarted, no state reset, no
\* check run
C20_LaterCallsReturnImmediately ==
  [][/\ ValidationOnlyAdvances
     /\ LaterCallRestartsNothing
     /\ \A e \in ValidatedDecls :
          IsLaterCallOn(e) => attrChecks'[e] = attrChecks[e]]_vars

\* C20: the validation state of a declaration never moves backwards and its
\* validation is begun at most once: a later call of validateDecl or
\* validateExtension on it, re-entrant or not, does nothing, and a later
\* call of the precedence-group validateDecl runs the attribute checks
\* again and nothing else
C20_LaterCallsRestartNothing ==
  [][/\ ValidationOnlyAdvances
     /\ LaterCallRestartsNothing
     /\ \A e \in ValidatedDecls :
          /\ bodyRuns'[e] <= 1
          /\ IsLaterCallOn(e) =>
               attrChecks'[e] = attrChecks[e] +
                 (IF validKind[e] = "PrecedenceGroup" THEN 1 ELSE 0)]_vars

\* a function called again while it is being validated and a precedence
\* group called again after it was validated
C20_Witness ==
  /\ validKind[1] = "PrecedenceGroup"
  /\ validKind[2] = "Func"
  /\ \E i \in CallsOn(1) : validateLog[i].before = "Checked"
  /\ \E i \in CallsOn(2) : validateLog[i].before = "Checking"
  /\ attrChecks[1] = 2
  /\ bodyRuns[2] = 1

(***************************************************************************)
(* Specifications.                                                         *)
(***************************************************************************)
\* the circularity checker before any declaration is visited
CircIdle ==
  /\ circularityCheck = [d \in Decls |-> "Unchecked"]
  /\ path = <<>>
  /\ callStack = <<>>
  /\ diags = <<>>
  /\ visited = {}
  /\ travRoot = 0
  /\ travBase = 0
  /\ travPre = [d \in Decls |-> "Unchecked"]
  /\ assertFailed = FALSE
  /\ expansions = [d \in Decls |-> 0]

\* a program without inheritance clauses
NoInheritance ==
  /\ declKind = "class"
  /\ inheritedClause = [d \in Decls |-> <<>>]

\* a constraint system without fixes
FixIdle ==
  /\ recordedFixes = {}
  /\ diagnosedLog = {}

\* an Evaluator that has not been asked anything
EvalIdle ==
  /\ calleeOf = [r \in Requests |-> Unknown]
  /\ activeRequests = <<>>
  /\ cache = [r \in Requests |-> NoResult]
  /\ slot = [d \in EvalDecls |-> NoResult]
  /\ stats = [k \in RequestKinds |-> 0]
  /\ execCount = [r \in Requests |-> 0]
  /\ statCount = [r \in Requests |-> 0]
  /\ evalLog = <<>>
  /\ cycleLog = <<>>
  /\ nEvals = 0
  /\ topRequest = NoRequest
  /\ topBase = [cycles |-> 0, evals |-> 0]

\* associated types without a lazy resolver or a default definition
NoDefaults ==
  /\ Resolver = [d \in AssocTypeDecls |-> FALSE]
  /\ defaultDefinition = [d \in AssocTypeDecls |-> FALSE]

\* no inheritance clause being checked
InhIdle ==
  /\ clauseDecl = "ClassDecl"
  /\ classKeyword = FALSE
  /\ clause = <<>>
  /\ clausePc = "entry"
  /\ clauseIdx = 1
  /\ superclassTy = NullType
  /\ superclassRange = 0
  /\ inheritedAnyObject = 0
  /\ entryLog = <<>>
  /\ clauseDiags = <<>>

\* no enum being checked
EnumIdle ==
  /\ rawType = "NoRawType"
  /\ elements = <<>>
  /\ enumPc = "entry"
  /\ enumIdx = 1
  /\ prevValue = NoLit
  /\ lastExplicitValueElt = 0
  /\ uniqueRawValues = {}
  /\ enumDiags = <<>>
  /\ enumAssertFailed = FALSE
  /\ enumCaller = "none"
  /\ repeatedName = 0

\* no declarations being checked for redeclaration
RedeclIdle ==
  /\ kindOf = <<>>
  /\ sigOf = <<>>
  /\ swift5Only = FALSE
  /\ interfaceType = <<>>
  /\ isInvalid = <<>>
  /\ alreadyCheckedRedeclaration = <<>>
  /\ visitedDecls = {}
  /\ redeclDiags = <<>>

\* no validation followed
ValidIdle ==
  /\ validKind = <<>>
  /\ parentOf = <<>>
  /\ validationState = <<>>
  /\ bindingState = <<>>
  /\ validationStack = <<>>
  /\ bodyRuns = <<>>
  /\ attrChecks = <<>>
  /\ validateLog = <<>>

(***************************************************************************)
(* Precedence groups: validateDecl(PrecedenceGroupDecl) and                *)
(* checkPrecedenceCircularity (TypeCheckDecl.cpp).                         *)
(***************************************************************************)
Groups == 1..NumGroups

\* the higherThan relations of the groups, in the order written; every
\* name is found, and no group has a lowerThan relation
PrecGraphs ==
  {g \in [Groups -> SeqsUpTo(Groups, MaxHigherThan)] :
     SumLen(g, Groups) <= MaxEdges}

\* which groups are marked invalid before any is validated: at most one
InvalidBefore ==
  {[grp \in Groups |-> grp = bad] : bad \in Groups \cup {0}}

\* the relations of a group whose Group has been set
resolvedHigherThan(grp) == SubSeq(higherThan[grp], 1, groupResolved[grp])

\* buildHigherThanPath: the names from the group checked to last
RECURSIVE buildHigherThanPath(_, _)
buildHigherThanPath(last, visitedFrom) ==
  IF visitedFrom[last] = 0 THEN <<last>>
  ELSE Append(buildHigherThanPath(visitedFrom[last], visitedFrom), last)

\* the loop over the higherThan relations of cur from relation k on, in the
\* second search of checkPrecedenceCircularity(pgd)
RECURSIVE searchRelations(_, _, _, _, _)
searchRelations(pgd, cur, k, stack, visitedFrom) ==
  LET rels == resolvedHigherThan(cur) IN
  IF k > Len(rels)
  THEN [found |-> FALSE, stack |-> stack, visitedFrom |-> visitedFrom]
  ELSE IF rels[k] = pgd
  THEN [found |-> TRUE,
        path |-> Append(buildHigherThanPath(cur, visitedFrom), pgd)]
  ELSE IF rels[k] \notin DOMAIN visitedFrom
  THEN searchRelations(pgd, cur, k + 1, Append(stack, rels[k]),
                       [grp \in DOMAIN visitedFrom \cup {rels[k]} |->
                          IF grp = rels[k] THEN cur ELSE visitedFrom[grp]])
  ELSE searchRelations(pgd, cur, k + 1, stack, visitedFrom)

\* variant: a group that is marked invalid is searched like any other
RECURSIVE searchHigherThan_throughInvalid(_, _, _, _)
searchHigherThan_throughInvalid(pgd, stack, visitedFrom, invalid) ==
  IF stack = <<>> THEN [kind |-> "none"]
  ELSE LET cur == stack[Len(stack)]
           r == searchRelations(pgd, cur, 1, SubSeq(stack, 1, Len(stack) - 1),
                                visitedFrom)
       IN IF r.found THEN [kind |-> "cycle", path |-> r.path]
          ELSE searchHigherThan_throughInvalid(pgd, r.stack, r.visitedFrom,
                                               invalid)

\* the second do-while of checkPrecedenceCircularity(pgd): what it ends
\* with, the groups marked invalid being those of invalid
RECURSIVE searchHigherThan(_, _, _, _)
searchHigherThan(pgd, stack, visitedFrom, invalid) ==
  IF stack = <<>> THEN [kind |-> "none"]
  ELSE LET cur == stack[Len(stack)]
           r == searchRelations(pgd, cur, 1, SubSeq(stack, 1, Len(stack) - 1),
                                visitedFrom)
       IN IF cur \in invalid THEN [kind |-> "invalid"]
          ELSE IF r.found THEN [kind |-> "cycle", path |-> r.path]
          ELSE searchHigherThan(pgd, r.stack, r.visitedFrom, invalid)

\* checkPrecedenceCircularity(pgd)
checkPrecedenceCircularity(pgd, invalid) ==
  IF pgd \in invalid THEN [kind |-> "none"]
  ELSE searchHigherThan(pgd, <<pgd>>, [grp \in {pgd} |-> 0], invalid)

\* validateDecl(PrecedenceGroupDecl *) up to its first loop: st is the call
\* stack of the caller
enterGroup(grp, st) ==
  IF groupInvalid[grp] \/ groupState[grp] # "Unchecked"
  THEN /\ groupStack' = st
       /\ UNCHANGED groupState
  ELSE /\ groupStack' = Append(st, [group |-> grp, next |-> 1])
       /\ groupState' = [groupState EXCEPT ![grp] = "Checking"]

\* validateDecl is asked for a group from outside
ValidateGroup(grp) ==
  /\ groupStack = <<>>
  /\ grp \notin groupsAsked
  /\ groupsAsked' = groupsAsked \cup {grp}
  /\ enterGroup(grp, <<>>)
  /\ UNCHANGED <<higherThan, groupInvalid, groupResolved, groupDiags>>
  /\ UNCHANGED nonPrecVars

\* one iteration of the loop over the higherThan relations: the group is
\* looked up, stored in the relation and validated
ResolveHigherThan ==
  /\ groupStack # <<>>
  /\ LET top == groupStack[Len(groupStack)]
     IN /\ top.next <= Len(higherThan[top.group])
        /\ groupResolved' = [groupResolved EXCEPT ![top.group] = top.next]
        /\ enterGroup(higherThan[top.group][top.next],
                      [groupStack EXCEPT ![Len(groupStack)].next = top.next + 1])
  /\ UNCHANGED <<higherThan, groupInvalid, groupsAsked, groupDiags>>
  /\ UNCHANGED nonPrecVars

\* the end of validateDecl: the check for circularity when a higherThan
\* relation was added, then the group is validated
FinishGroup ==
  /\ groupStack # <<>>
  /\ LET top == groupStack[Len(groupStack)]
         pgd == top.group
         invalid == {grp \in Groups : groupInvalid[grp]}
         res == IF higherThan[pgd] # <<>>
                THEN checkPrecedenceCircularity(pgd, invalid)
                ELSE [kind |-> "none"]
     IN /\ top.next > Len(higherThan[pgd])
        /\ groupDiags' =
             IF res.kind = "cycle"
             THEN Append(groupDiags, [id |-> "precedence_group_cycle",
                                      at |-> pgd, path |-> res.path])
             ELSE groupDiags
        /\ groupInvalid' =
             IF res.kind = "none" THEN groupInvalid
             ELSE [groupInvalid EXCEPT ![pgd] = TRUE]
        /\ groupState' = [groupState EXCEPT ![pgd] = "Checked"]
        /\ groupStack' = SubSeq(groupStack, 1, Len(groupStack) - 1)
  /\ UNCHANGED <<higherThan, groupsAsked, groupResolved>>
  /\ UNCHANGED nonPrecVars

(***************************************************************************)
(* Properties of the validation of precedence groups.                      *)
(***************************************************************************)
\* the steps of a path of groups
PathSteps(p) == {<<p[i], p[i + 1]>> : i \in 1..(Len(p) - 1)}

\* the cycles of the higherThan relations as written, each from its
\* smallest group on
GroupCycles ==
  {s \in SeqsUpTo(Groups, NumGroups) \ {<<>>} :
     /\ \A i \in 2..Len(s) : s[1] < s[i]
     /\ \A i \in 1..Len(s) :
          \E k \in DOMAIN higherThan[s[i]] :
            higherThan[s[i]][k] = s[(i % Len(s)) + 1]}

\* the precedence_group_cycle diagnostics whose path is the cycle s
ReportsOf(s) ==
  {i \in DOMAIN groupDiags :
     PathSteps(groupDiags[i].path) = PathSteps(Append(s, s[1]))}

\* validateDecl was called for every group and every call has returned
AllGroupsValidated == groupStack = <<>> /\ groupsAsked = Groups

\* C27 as stated: once every group is validated, each cycle of the
\* higherThan relations has exactly one precedence_group_cycle diagnostic
C27_ExactlyOnePerCycle ==
  AllGroupsValidated =>
    \A s \in GroupCycles : Cardinality(ReportsOf(s)) = 1

\* the groups validateDecl returned from at once because they were marked
\* invalid before: they alone are never begun
InvalidBeforeValidation == {grp \in Groups : groupState[grp] = "Unchecked"}

\* every group has at most one higherThan relation, so no two cycles share
\* a group
SingleHigherThan == \A grp \in Groups : Len(higherThan[grp]) <= 1

CycleReportsAreSound ==
  /\ \A i \in DOMAIN groupDiags : \E s \in GroupCycles : i \in ReportsOf(s)
  /\ \A s \in GroupCycles : Cardinality(ReportsOf(s)) <= 1
  /\ AllGroupsValidated =>
       \A s \in GroupCycles :
         /\ \E i \in 1..Len(s) : groupInvalid[s[i]]
         /\ (SingleHigherThan /\ InvalidBeforeValidation = {}) =>
              Cardinality(ReportsOf(s)) = 1

\* C27 (amended): every validation of a group returns; every
\* precedence_group_cycle diagnostic names a cycle of the higherThan
\* relations and no cycle is named twice; once every group is validated,
\* each cycle holds a group marked invalid, and has exactly one diagnostic
\* when every group has at most one higherThan relation and none was
\* invalid before
C27_AtMostOnePerCycle ==
  /\ (groupStack # <<>>) ~> (groupStack = <<>>)
  /\ []CycleReportsAreSound

C27_Witness ==
  /\ AllGroupsValidated
  /\ higherThan = <<<<2>>, <<1>>, <<>>>>
  /\ InvalidBeforeValidation = {}
  /\ Len(groupDiags) = 1
  /\ groupInvalid = <<TRUE, TRUE, FALSE>>

(***************************************************************************)
(* IsFinalRequest (TypeCheckRequests.h, TypeCheckDecl.cpp): a class, one   *)
(* of its members and an accessor of that member.                          *)
(***************************************************************************)
FinalDecls == {"class", "member", "accessor"}

\* the declarations as written: the class with or without 'final', the
\* member's kind, static spelling, 'final' attribute, access and 'let',
\* and the kind of the accessor
FinalWorlds ==
  {w \in [classFinalAttr : BOOLEAN,
          memberKind : {"Var", "Func", "Subscript"},
          staticSpelling : {"None", "KeywordStatic", "KeywordClass"},
          finalAttr : BOOLEAN,
          open : BOOLEAN,
          isLet : BOOLEAN,
          accessorKind : {"Get", "DidSet"}] :
     w.isLet => w.memberKind = "Var"}

\* an Optional<bool>: no value, or the value
NotComputed == <<>>

Computed(b) == <<b>>

\* the value of a result; FALSE stands for a result that is not read
ValueOf(result) == IF result = NotComputed THEN FALSE ELSE result[1]

FinalDiag(id, reason) == [id |-> id, decl |-> "member", reason |-> reason]

\* inferFinalAndDiagnoseIfNeeded(D, cls, staticSpelling) for the member:
\* clsIsFinal is what cls->isFinal() returned, asked only when the member
\* is not 'static'
inferFinalAndDiagnoseIfNeeded(w, clsIsFinal) ==
  LET reason == IF w.staticSpelling = "KeywordStatic" THEN "Static"
                ELSE IF clsIsFinal THEN "FinalClass"
                ELSE "NoReason"
      already == IF w.staticSpelling = "KeywordStatic" /\ w.finalAttr
                 THEN <<FinalDiag("static_decl_already_final", "NoReason")>>
                 ELSE <<>>
      cannot == IF reason # "NoReason" /\ w.open
                THEN <<FinalDiag("implicitly_final_cannot_be_open", reason)>>
                ELSE <<>>
  IN [value |-> reason # "NoReason", diags |-> already \o cannot]

\* the request the body of IsFinalRequest for decl evaluates: cls->isFinal()
\* in inferFinalAndDiagnoseIfNeeded, storage->isFinal() for an accessor
FinalDependency(w, decl) ==
  CASE decl = "member" /\ w.staticSpelling # "KeywordStatic" -> "class"
    [] decl = "accessor" /\ w.accessorKind = "Get" -> "member"
    [] OTHER -> "none"

\* IsFinalRequest::evaluate(decl): sub is the result of the request it
\* evaluated, if any
IsFinalRequest_evaluate(w, decl, sub) ==
  CASE decl = "class" -> [value |-> w.classFinalAttr, diags |-> <<>>]
    [] decl = "accessor" ->
         [value |-> IF w.accessorKind = "DidSet" THEN TRUE ELSE sub,
          diags |-> <<>>]
    [] OTHER ->
         LET inferred == inferFinalAndDiagnoseIfNeeded(w, sub)
         IN IF inferred.value THEN inferred
            ELSE IF w.memberKind = "Var" /\ w.isLet
            THEN [value |-> TRUE,
                  diags |-> inferred.diags \o
                    (IF w.open
                     THEN <<FinalDiag("implicitly_final_cannot_be_open",
                                      "Let")>>
                     ELSE <<>>)]
            ELSE [value |-> w.finalAttr, diags |-> inferred.diags]

\* variant: the request opts out of caching
IsFinalRequest_isCached_never(decl) == FALSE

\* IsFinalRequest::isCached() of the SeparatelyCached request
IsFinalRequest_isCached(decl) == TRUE

\* IsFinalRequest::getCachedResult(): the result stored in the declaration,
\* where cacheResult() put it
IsFinalRequest_getCachedResult(cached, decl) == cached[decl]

\* Evaluator::evaluate of IsFinalRequest{decl} with the frames running: a
\* stored result is returned, otherwise the body is begun
evaluateIsFinal(decl, frames) ==
  LET cached == IF IsFinalRequest_isCached(decl)
                THEN IsFinalRequest_getCachedResult(isFinalCache, decl)
                ELSE NotComputed
  IN IF cached # NotComputed
     THEN finalStack' =
            IF frames = <<>> THEN frames
            ELSE [frames EXCEPT ![Len(frames)].sub = cached]
     ELSE finalStack' = Append(frames, [decl |-> decl, sub |-> NotComputed])

\* decl->isFinal() is asked from outside the request
QueryIsFinal(decl) ==
  /\ finalStack = <<>>
  /\ Len(finalQueries) < MaxFinalQueries
  /\ finalQueries' = Append(finalQueries, decl)
  /\ evaluateIsFinal(decl, finalStack)
  /\ UNCHANGED <<finalWorld, isFinalCache, finalDiags>>
  /\ UNCHANGED nonFinalVars

\* the body that is running asks isFinal() of the class or the storage
NestedIsFinal ==
  /\ finalStack # <<>>
  /\ LET top == finalStack[Len(finalStack)]
     IN /\ FinalDependency(finalWorld, top.decl) # "none"
        /\ top.sub = NotComputed
        /\ evaluateIsFinal(FinalDependency(finalWorld, top.decl), finalStack)
  /\ UNCHANGED <<finalWorld, isFinalCache, finalDiags, finalQueries>>
  /\ UNCHANGED nonFinalVars

\* the body that is running returns: its diagnostics are emitted, the
\* result is stored in the declaration and handed to the caller
ReturnIsFinal ==
  /\ finalStack # <<>>
  /\ LET top == finalStack[Len(finalStack)]
         rest == SubSeq(finalStack, 1, Len(finalStack) - 1)
         res == IsFinalRequest_evaluate(finalWorld, top.decl,
                                        ValueOf(top.sub))
     IN /\ \/ FinalDependency(finalWorld, top.decl) = "none"
           \/ top.sub # NotComputed
        /\ finalDiags' = finalDiags \o res.diags
        /\ isFinalCache' =
             IF IsFinalRequest_isCached(top.decl)
             THEN [isFinalCache EXCEPT ![top.decl] = Computed(res.value)]
             ELSE isFinalCache
        /\ finalStack' =
             IF rest = <<>> THEN rest
             ELSE [rest EXCEPT ![Len(rest)].sub = Computed(res.value)]
  /\ UNCHANGED <<finalWorld, finalQueries>>
  /\ UNCHANGED nonFinalVars

(***************************************************************************)
(* Properties of IsFinalRequest.                                           *)
(***************************************************************************)
\* the diagnostics with the given id, all of them at the member
FinalDiagsOf(id) == {i \in DOMAIN finalDiags : finalDiags[i].id = id}

\* how often isFinal() was asked of decl from outside
TimesQueried(decl) ==
  Cardinality({i \in DOMAIN finalQueries : finalQueries[i] = decl})

\* C28: each diagnostic of the body of IsFinalRequest is emitted at most
\* once for the declaration, however often and in whatever order isFinal()
\* is asked of the class, the member and the accessor
C28_FinalDiagnosedOnce ==
  \A id \in {"implicitly_final_cannot_be_open", "static_decl_already_final"} :
    Cardinality(FinalDiagsOf(id)) <= 1

C28_Witness ==
  /\ finalStack = <<>>
  /\ TimesQueried("member") >= 2
  /\ TimesQueried("accessor") >= 1
  /\ Cardinality(FinalDiagsOf("implicitly_final_cannot_be_open")) = 1
  /\ finalDiags[1].reason = "FinalClass"

\* no precedence group
PrecIdle ==
  /\ higherThan = <<>>
  /\ groupInvalid = <<>>
  /\ groupState = <<>>
  /\ groupResolved = <<>>
  /\ groupStack = <<>>
  /\ groupsAsked = {}
  /\ groupDiags = <<>>

\* no finality asked
FinalIdle ==
  /\ finalWorld = <<>>
  /\ isFinalCache = <<>>
  /\ finalStack = <<>>
  /\ finalDiags = <<>>
  /\ finalQueries = <<>>

SemaIdle ==
  InhIdle /\ EnumIdle /\ RedeclIdle /\ ValidIdle /\ PrecIdle /\ FinalIdle

InitCirc ==
  /\ declKind \in {"class", "enum", "protocol"}
  /\ inheritedClause \in Graphs(declKind)
  /\ CircIdle
  /\ fixCtx = SomeContext
  /\ FixIdle
  /\ NoDefaults
  /\ EvalIdle
  /\ SemaIdle

NextCirc ==
  \/ \E d \in Decls : VisitDecl(d)
  \/ WalkInherited
  \/ FinishDecl

SpecCirc == InitCirc /\ [][NextCirc]_vars

\* a call that has been entered runs on: its loop goes to the next
\* inherited declaration and its end is reached
SpecCircLive ==
  SpecCirc /\ WF_vars(WalkInherited) /\ WF_vars(FinishDecl)

InitFix ==
  /\ NoInheritance
  /\ CircIdle
  /\ fixCtx = SomeContext
  /\ FixIdle
  /\ NoDefaults
  /\ EvalIdle
  /\ SemaIdle

NextFix ==
  \/ \E c \in SimpleFixClasses : RecordSimpleFix(c)
  \/ \E b \in BOOLEAN : RecordMissingConformance(b)
  \/ \E k \in InitRefKinds : RecordAllowInvalidInitRef(k)
  \/ \E w \in BOOLEAN : RecordAllowInvalidPartialApplication(w)
  \/ \E m \in Members : RecordAllowInvalidRefInKeyPath(m)
  \/ RecordForceOptional("Int?", "Int", SomeLocator)
  \/ \E r \in recordedFixes, asNote \in BOOLEAN : DiagnoseFix(r, asNote)

SpecFix == InitFix /\ [][NextFix]_vars

\* one ForceOptional fix followed from its creation to its diagnosis
InitUnwrap ==
  /\ NoInheritance
  /\ CircIdle
  /\ fixCtx \in Contexts
  /\ FixIdle
  /\ NoDefaults
  /\ EvalIdle
  /\ SemaIdle

NextUnwrap ==
  \/ /\ recordedFixes = {}
     /\ \E b, u \in Types, l \in Locators : RecordForceOptional(b, u, l)
  \/ \E r \in recordedFixes, asNote \in BOOLEAN : DiagnoseFix(r, asNote)

SpecUnwrap == InitUnwrap /\ [][NextUnwrap]_vars

InitEval ==
  /\ NoInheritance
  /\ CircIdle
  /\ fixCtx = SomeContext
  /\ FixIdle
  /\ Resolver \in [AssocTypeDecls -> BOOLEAN]
  /\ defaultDefinition \in [AssocTypeDecls -> BOOLEAN]
  /\ EvalIdle
  /\ SemaIdle

NextEval ==
  \/ \E r \in Requests : TopEvaluate(r)
  \/ \E c \in UNION {CallsOf(r) : r \in Requests} : BodyEvaluate(c)
  \/ BodyReturn

SpecEval == InitEval /\ [][NextEval]_vars

InitInherit ==
  /\ PrecIdle
  /\ FinalIdle
  /\ NoInheritance
  /\ CircIdle
  /\ fixCtx = SomeContext
  /\ FixIdle
  /\ NoDefaults
  /\ EvalIdle
  /\ clauseDecl \in ClauseDecls
  /\ classKeyword \in BOOLEAN
  /\ clause \in Clauses
  /\ clausePc = "entry"
  /\ clauseIdx = 1
  /\ superclassTy = NullType
  /\ superclassRange = 0
  /\ inheritedAnyObject = 0
  /\ entryLog = <<>>
  /\ clauseDiags = <<>>
  /\ EnumIdle
  /\ RedeclIdle
  /\ ValidIdle

NextInherit ==
  \/ BeginCheckInheritanceClause
  \/ CheckInheritedEntry

SpecInherit == InitInherit /\ [][NextInherit]_vars

InitEnum ==
  /\ PrecIdle
  /\ FinalIdle
  /\ NoInheritance
  /\ CircIdle
  /\ fixCtx = SomeContext
  /\ FixIdle
  /\ NoDefaults
  /\ EvalIdle
  /\ InhIdle
  /\ RedeclIdle
  /\ ValidIdle
  /\ rawType \in RawTypes
  /\ elements \in Enums
  /\ enumPc = "entry"
  /\ enumIdx = 1
  /\ prevValue = NoLit
  /\ lastExplicitValueElt = 0
  /\ uniqueRawValues = {}
  /\ enumDiags = <<>>
  /\ enumAssertFailed = FALSE
  /\ enumCaller \in EnumCallers
  /\ repeatedName \in RepeatedNames(enumCaller, elements)

NextEnum ==
  \/ BeginCheckEnumRawValues
  \/ CheckEnumElement

SpecEnum == InitEnum /\ [][NextEnum]_vars

InitRedecl ==
  /\ PrecIdle
  /\ FinalIdle
  /\ NoInheritance
  /\ CircIdle
  /\ fixCtx = SomeContext
  /\ FixIdle
  /\ NoDefaults
  /\ EvalIdle
  /\ InhIdle
  /\ EnumIdle
  /\ ValidIdle
  /\ kindOf \in [ValueDecls -> ValueDeclKinds]
  /\ sigOf \in [ValueDecls -> OverloadSignatures]
  /\ swift5Only \in BOOLEAN
  /\ interfaceType = [d \in ValueDecls |-> NoType]
  /\ isInvalid = [d \in ValueDecls |-> FALSE]
  /\ alreadyCheckedRedeclaration = [d \in ValueDecls |-> FALSE]
  /\ visitedDecls = {}
  /\ redeclDiags = <<>>

NextRedecl ==
  \/ \E d \in ValueDecls : ValidateValueDecl(d)
  \/ \E d \in ValueDecls, other \in ValueDecls \cup {0} :
       VisitValueDecl(d, other)

SpecRedecl == InitRedecl /\ [][NextRedecl]_vars

InitValid ==
  /\ PrecIdle
  /\ FinalIdle
  /\ NoInheritance
  /\ CircIdle
  /\ fixCtx = SomeContext
  /\ FixIdle
  /\ NoDefaults
  /\ EvalIdle
  /\ InhIdle
  /\ EnumIdle
  /\ RedeclIdle
  /\ \E w \in ValidatedWorlds : validKind = w.kind /\ parentOf = w.parent
  /\ validationState = [e \in ValidatedDecls |-> "Unchecked"]
  /\ bindingState = [e \in ValidatedDecls |-> "Unchecked"]
  /\ validationStack = <<>>
  /\ bodyRuns = [e \in ValidatedDecls |-> 0]
  /\ attrChecks = [e \in ValidatedDecls |-> 0]
  /\ validateLog = <<>>

NextValid ==
  \/ \E e \in ValidatedDecls : CallValidateDecl(e)
  \/ \E e \in ValidatedDecls : CallValidateExtension(e)
  \/ \E e \in ValidatedDecls : CallValidatePrecedenceGroup(e)
  \/ ContextValidated
  \/ BindingValidated
  \/ ValidationDone

SpecValid == InitValid /\ [][NextValid]_vars

InitPrec ==
  /\ FinalIdle
  /\ NoInheritance
  /\ CircIdle
  /\ fixCtx = SomeContext
  /\ FixIdle
  /\ NoDefaults
  /\ EvalIdle
  /\ InhIdle
  /\ EnumIdle
  /\ RedeclIdle
  /\ ValidIdle
  /\ higherThan \in PrecGraphs
  /\ groupInvalid \in InvalidBefore
  /\ groupState = [grp \in Groups |-> "Unchecked"]
  /\ groupResolved = [grp \in Groups |-> 0]
  /\ groupStack = <<>>
  /\ groupsAsked = {}
  /\ groupDiags = <<>>

NextPrec ==
  \/ \E grp \in Groups : ValidateGroup(grp)
  \/ ResolveHigherThan
  \/ FinishGroup

SpecPrec == InitPrec /\ [][NextPrec]_vars

\* validateDecl is called for every group and each call returns
SpecPrecLive ==
  /\ SpecPrec
  /\ WF_vars(ResolveHigherThan)
  /\ WF_vars(FinishGroup)

InitFinal ==
  /\ NoInheritance
  /\ CircIdle
  /\ fixCtx = SomeContext
  /\ FixIdle
  /\ NoDefaults
  /\ EvalIdle
  /\ InhIdle
  /\ EnumIdle
  /\ RedeclIdle
  /\ ValidIdle
  /\ PrecIdle
  /\ finalWorld \in FinalWorlds
  /\ isFinalCache = [decl \in FinalDecls |-> NotComputed]
  /\ finalStack = <<>>
  /\ finalDiags = <<>>
  /\ finalQueries = <<>>

NextFinal ==
  \/ \E decl \in FinalDecls : QueryIsFinal(decl)
  \/ NestedIsFinal
  \/ ReturnIsFinal

SpecFinal == InitFinal /\ [][NextFinal]_vars

====
